---- MODULE Spec2Model ----
(***************************************************************************)
(* State-machine model of the services of pei-automotive-backend: the      *)
(* PositionProcessor and the detectors (SpeedDetector, AccidentDetector,   *)
(* HighwayEntryDetector, OvertakingDetector), each an operating-system     *)
(* process of its own with a callback over its own state.  The services    *)
(* share no state, so a behaviour of the model follows one of them.        *)
(*                                                                         *)
(* Numbers.  TLC has integers only, so the floats of the code are fixed    *)
(* point: lengths and coordinates are millimetres in a local frame whose   *)
(* origin is a reference point of the road (latitude = northing, longitude *)
(* = easting, both measured as arc length on the sphere of radius R used   *)
(* by haversine_distance_m), speeds are km/h, headings whole degrees,      *)
(* clock readings whole seconds (milliseconds in the PositionProcessor).   *)
(* An absent Optional value is None.                                       *)
(***************************************************************************)
EXTENDS Integers, Sequences, FiniteSets, TLC

\* ------------------------------------------------------------------ values

\* Optional[float] = None (speeds are >= 0 and headings in [0, 360)).
None == -1

\* One metre, in the model's length unit (millimetres).
M == 1000

Abs(x) == IF x < 0 THEN 0 - x ELSE x

Min(a, b) == IF a < b THEN a ELSE b

RECURSIVE ISqrtIter(_, _, _)
\* Largest r in lo..hi with r * r <= n (hi * hi must fit 32 bits).
ISqrtIter(n, lo, hi) ==
    IF lo >= hi THEN lo
    ELSE LET mid == (lo + hi + 1) \div 2
         IN  IF mid * mid <= n THEN ISqrtIter(n, mid, hi)
                               ELSE ISqrtIter(n, lo, mid - 1)

ISqrt(n) == ISqrtIter(n, 0, 46340)

\* common/utils.py haversine_distance_m: the great-circle distance.  In the
\* local frame (distances of at most a few hundred metres) it is the Euclidean
\* distance of the arc-length coordinates; exact along a meridian or a
\* parallel, rounded down to the millimetre otherwise.
haversine_distance_m(lat1, lon1, lat2, lon2) ==
    LET dlat == Abs(lat2 - lat1)
        dlon == Abs(lon2 - lon1)
    IN  IF dlon = 0 THEN dlat
        ELSE IF dlat = 0 THEN dlon
        ELSE ISqrt(dlat * dlat + dlon * dlon)

\* common/utils.py bearing_deg: atan2(x, y) in degrees, normalised to
\* [0, 360).  Defined on the displacements the model draws: along the axes
\* and the diagonals; atan2(0, 0) = 0.
bearing_deg(lat1, lon1, lat2, lon2) ==
    LET x == lon2 - lon1
        y == lat2 - lat1
    IN  CASE x = 0 /\ y >= 0      -> 0
          [] x > 0 /\ y = x       -> 45
          [] x > 0 /\ y = 0       -> 90
          [] x > 0 /\ y = 0 - x   -> 135
          [] x = 0 /\ y < 0       -> 180
          [] x < 0 /\ y = x       -> 225
          [] x < 0 /\ y = 0       -> 270
          [] x < 0 /\ y = 0 - x   -> 315

Put_alone(d, k, v) == [x \in {k} |-> v]

\* dict[key] = value
Put(d, k, v) == [x \in (DOMAIN d) \cup {k} |-> IF x = k THEN v ELSE d[x]]

EmptyMap == [x \in {} |-> x]

\* ---------------------------------------------------------------- payloads

\* The keys of CarUpdate.to_dict (the timestamp, which no detector reads, is
\* left out of the model)
AllKeys == {"car_id", "latitude", "longitude", "speed_kmh", "heading_deg"}

\* The keys CarUpdate.from_dict reads with data[...]
RequiredKeys == {"car_id", "latitude", "longitude"}

\* No update: what a handler run that dropped its payload has processed
NoUpdate ==
    [car_id |-> "none", latitude |-> 0, longitude |-> 0,
     speed_kmh |-> None, heading_deg |-> None]

\* A payload is text that is JSON or not; if it is, it is an object with
\* some keys, and data holds their values.
NoPayload == [json |-> FALSE, keys |-> {}, data |-> NoUpdate]

\* CarUpdate.to_json
to_json(update) == [json |-> TRUE, keys |-> AllKeys, data |-> update]

parses_json_only(payload) == payload.json

\* Whether json.loads(payload) and CarUpdate.from_dict(data) return, that
\* is, raise neither ValueError nor KeyError
parses(payload) == payload.json /\ RequiredKeys \subseteq payload.keys

\* CarUpdate.from_dict(json.loads(payload)), where it returns
from_dict(payload) ==
    [car_id |-> payload.data.car_id,
     latitude |-> payload.data.latitude,
     longitude |-> payload.data.longitude,
     speed_kmh |-> IF "speed_kmh" \in payload.keys THEN payload.data.speed_kmh
                                                   ELSE None,
     heading_deg |-> IF "heading_deg" \in payload.keys THEN payload.data.heading_deg
                                                       ELSE None]

\* Payloads that are not a car update: text that is not JSON, and the
\* update's object without one of the required keys
BadPayloadsOf(update) ==
    {NoPayload} \cup { [json |-> TRUE, keys |-> AllKeys \ {k}, data |-> update]
                       : k \in RequiredKeys }

\* The update's object without the optional keys
BarePayloadOf(update) ==
    [json |-> TRUE, keys |-> RequiredKeys, data |-> update]

\* The services, one process each; "mqtt_loop" is the overtaking detector
\* once more, at the grain of the statements of its handler, and
\* "ditto_feed" the position processor once more, at the grain of the
\* statements of its feed client
Processes ==
    {"position_processor", "speed_detector", "accident_detector",
     "highway_entry_detector", "overtaking_detector", "mqtt_loop", "ditto_feed"}

\* ------------------------------------------------------------------ bounds

\* The number of accidents the model lets the detector create.
MaxAccidents == 2

\* The number of raw GPS samples the model lets the position processor
\* handle.
MaxSamples == 4

\* The number of messages the model lets wait for the MQTT loop.
MaxQueue == 2

\* The number of skipped comparisons the history of a pair counts up to.
MaxSkips == 2

\* The number of sessions of the feed client the model counts up to.
MaxSessions == 3

\* The number of raw GPS samples the model lets the feed deliver.
MaxFeedSamples == 2

\* The cars that send updates.
CarIds == {"c1", "c2"}

VARIABLES
    process,             \* the service that the behaviour follows
    inbound,             \* the payload the last handler run received
    \* time.time(): the last reading
    clock,
    \* AccidentDetector
    acc_cars,            \* self.cars: car_id -> CarState
    active_accidents,    \* self.active_accidents: event_id -> Accident
    event_counter,       \* self.event_counter
    acc_published,       \* what the last handler run published over MQTT
    acc_log,             \* what the last handler run logged as warnings
    acc_previous,        \* state.previous_speed_kmh as that run assigned it
    acc_earlier,         \* the car's latest defined speed when that run began
    acc_defined,         \* history: car_id -> the latest defined speed it reported
    acc_last,            \* the update the last handler run processed
    \* HighwayEntryDetector
    hwy_cars,            \* self.cars: car_id -> CarUpdate
    highway_cars,        \* self.highway_cars
    entering_cars,       \* self.entering_cars
    highway_coords,      \* self.highway_coords
    entering_coords,     \* self.entering_coords
    merge_point,         \* self.merge_point: {} (None) or {the point}
    alerted_pairs,       \* self.alerted_pairs
    hwy_published,       \* what the last handler run published over MQTT
    hwy_predicted,       \* what _predict_collision returned in that run
    safe_alerted,        \* history: the registry's pairs whose alert was safe
    hwy_last,             \* the update the last handler run processed
    \* OvertakingDetector
    ovt_cars,            \* self.cars: car_id -> CarUpdate
    relative_positions,  \* self.relative_positions: (A, B) -> sign
    skipped,             \* history: (A, B) -> how many updates of A since the
                         \* stored +1 were not compared with B, up to MaxSkips
    ovt_published,       \* what the last handler run published over MQTT
    ovt_last,            \* the update the last handler run processed
    \* SpeedDetector
    spd_published,       \* what the last handler run published over MQTT
    spd_last,            \* the update the last handler run processed
    \* PositionProcessor
    pos_clock,           \* time.time(): the last reading, in milliseconds
    pos_states,          \* self.states: car_id -> (lat, lon, timestamp)
    pos_published,       \* what the last handler run published over MQTT
    pos_sample,          \* the sample the last handler run processed
    pos_count,           \* the number of samples handled
    \* The MQTT loop of a detector
    loop_queue,          \* the messages received and not yet dispatched
    loop_pc,             \* thread -> the statement it is at
    loop_msg,            \* thread -> the payload its handler was called with
    loop_entry,          \* thread -> the detector's state at that call
    \* The feed client of the position processor (DittoWSClient)
    should_run,          \* self._should_run
    ws,                  \* self.ws: the WebSocketApp it holds, NoApp for None
    closed,              \* the WebSocketApps that close() was called on
    feed_pc,             \* the statement of run_forever its caller is at
    stop_pc,             \* the statement of stop() its caller is at
    sessions,            \* the number of sessions opened, up to MaxSessions
    session_samples,     \* the number of samples handled in this session
    slept,               \* the seconds of the last time.sleep of the loop
    feed_waited,         \* the seconds slept between the last two sessions
    feed_end             \* how the last session ended

sys_vars == <<process, inbound>>

acc_vars == <<clock, acc_cars, active_accidents, event_counter, acc_published,
              acc_log, acc_previous, acc_earlier,
              acc_defined, acc_last>>

hwy_vars == <<hwy_cars, highway_cars, entering_cars, highway_coords, entering_coords,
              merge_point, alerted_pairs, hwy_published, hwy_predicted,
              safe_alerted, hwy_last>>

ovt_vars == <<ovt_cars, relative_positions, skipped, ovt_published, ovt_last>>

spd_vars == <<spd_published, spd_last>>

pos_vars == <<pos_clock, pos_states, pos_published, pos_sample, pos_count>>

loop_vars == <<loop_queue, loop_pc, loop_msg, loop_entry>>

feed_vars == <<should_run, ws, closed, feed_pc, stop_pc, sessions,
               session_samples, slept, feed_waited, feed_end>>

vars == <<sys_vars, acc_vars, hwy_vars, ovt_vars, spd_vars, pos_vars, loop_vars,
          feed_vars>>

\* ======================================================= AccidentDetector

\* 0.70, in percent
SPEED_DROP_PERCENT == 70
MIN_SPEED_BEFORE_STOP == 30
STOPPED_THRESHOLD_KMH == 5
NOTIFICATION_RADIUS_M == 500
PROXIMITY_RADIUS_M == 50
ACCIDENT_COOLDOWN_S == 60
ACCIDENT_EXPIRY_S == 300

\* The clock readings the model draws: the ends of the cooldown and of the
\* expiry window of an accident detected at 0, and one reading beyond.
Times == {0, ACCIDENT_COOLDOWN_S, ACCIDENT_EXPIRY_S, ACCIDENT_EXPIRY_S + 30}

\* What the accident scenario lets car c1 report, <<metres north of the origin
\* on one meridian, speed_kmh, heading_deg>>: 50 m and 500 m (= 550 - 50) are
\* the two radii, 30 -> 4 or 5 km/h a sudden stop, 5 km/h the slowest moving
\* car, heading 315 ahead of an accident to the north (through the wrap) and
\* behind one to the south, heading 90 at right angles to both.
AccProfiles ==
    { <<0, 30, 315>>, <<50, 4, 315>>, <<0, 5, 315>>, <<550, 5, 315>>,
      <<50, 5, 315>>, <<0, None, 315>>, <<0, 5, 90>>, <<0, 5, None>> }

\* What it lets the second car, c2, report: it drives, stops, is notified.
AccProfilesSecond == { <<0, 30, 315>>, <<0, 5, 315>>, <<50, 5, 315>> }

\* CarUpdate.from_dict of a well-formed payload.
AccUpdatesOf(c, profiles) ==
    { [car_id |-> c, latitude |-> p[1] * M, longitude |-> 0,
       speed_kmh |-> p[2], heading_deg |-> p[3]] : p \in profiles }

AccUpdates == AccUpdatesOf("c1", AccProfiles) \cup AccUpdatesOf("c2", AccProfilesSecond)

is_accident_ahead_le(car, accident) ==
    IF car.heading_deg = None THEN FALSE
    ELSE LET bearing_to_accident ==
                 bearing_deg(car.latitude, car.longitude,
                             accident.latitude, accident.longitude)
             heading_diff == Abs(car.heading_deg - bearing_to_accident)
         IN  Min(heading_diff, 360 - heading_diff) <= 90

\* AccidentDetector._is_accident_ahead
is_accident_ahead(car, accident) ==
    IF car.heading_deg = None THEN FALSE
    ELSE LET bearing_to_accident ==
                 bearing_deg(car.latitude, car.longitude,
                             accident.latitude, accident.longitude)
             heading_diff == Abs(car.heading_deg - bearing_to_accident)
         IN  Min(heading_diff, 360 - heading_diff) < 90

should_notify_car_strict_radius(car, accident) ==
    IF car.car_id = accident.source_vehicle_id THEN FALSE
    ELSE IF car.speed_kmh = None \/ car.speed_kmh < STOPPED_THRESHOLD_KMH THEN FALSE
    ELSE IF haversine_distance_m(car.latitude, car.longitude,
                                 accident.latitude, accident.longitude)
            >= NOTIFICATION_RADIUS_M * M THEN FALSE
    ELSE is_accident_ahead(car, accident)

should_notify_car_includes_source(car, accident) ==
    IF car.speed_kmh = None \/ car.speed_kmh < STOPPED_THRESHOLD_KMH THEN FALSE
    ELSE IF haversine_distance_m(car.latitude, car.longitude,
                                 accident.latitude, accident.longitude)
            > NOTIFICATION_RADIUS_M * M THEN FALSE
    ELSE is_accident_ahead(car, accident)

\* AccidentDetector._should_notify_car
should_notify_car(car, accident) ==
    IF car.car_id = accident.source_vehicle_id THEN FALSE
    ELSE IF car.speed_kmh = None \/ car.speed_kmh < STOPPED_THRESHOLD_KMH THEN FALSE
    ELSE IF haversine_distance_m(car.latitude, car.longitude,
                                 accident.latitude, accident.longitude)
            > NOTIFICATION_RADIUS_M * M THEN FALSE
    ELSE is_accident_ahead(car, accident)

check_accident_cooldown_same_source(accidents, update, now) ==
    \E id \in DOMAIN accidents :
        /\ accidents[id].active
        /\ accidents[id].source_vehicle_id = update.car_id
        /\ haversine_distance_m(update.latitude, update.longitude,
                                accidents[id].latitude, accidents[id].longitude)
               <= PROXIMITY_RADIUS_M * M
        /\ now - accidents[id].detected_at < ACCIDENT_COOLDOWN_S

check_accident_cooldown_strict_radius(accidents, update, now) ==
    \E id \in DOMAIN accidents :
        /\ accidents[id].active
        /\ haversine_distance_m(update.latitude, update.longitude,
                                accidents[id].latitude, accidents[id].longitude)
               < PROXIMITY_RADIUS_M * M
        /\ now - accidents[id].detected_at < ACCIDENT_COOLDOWN_S

\* AccidentDetector._check_accident_cooldown(update.latitude,
\* update.longitude), at clock reading now
check_accident_cooldown(accidents, update, now) ==
    \E id \in DOMAIN accidents :
        /\ accidents[id].active
        /\ haversine_distance_m(update.latitude, update.longitude,
                                accidents[id].latitude, accidents[id].longitude)
               <= PROXIMITY_RADIUS_M * M
        /\ now - accidents[id].detected_at < ACCIDENT_COOLDOWN_S

detect_sudden_stop_below(update, state) ==
    IF state.previous_speed_kmh = None \/ update.speed_kmh = None THEN FALSE
    ELSE IF state.previous_speed_kmh < MIN_SPEED_BEFORE_STOP THEN FALSE
    ELSE IF update.speed_kmh >= STOPPED_THRESHOLD_KMH THEN FALSE
    ELSE (state.previous_speed_kmh - update.speed_kmh) * 100
             >= SPEED_DROP_PERCENT * state.previous_speed_kmh

detect_sudden_stop_from_unknown(update, state) ==
    IF update.speed_kmh = None THEN FALSE
    ELSE IF state.previous_speed_kmh = None
         THEN update.speed_kmh <= STOPPED_THRESHOLD_KMH
    ELSE IF state.previous_speed_kmh < MIN_SPEED_BEFORE_STOP THEN FALSE
    ELSE IF update.speed_kmh > STOPPED_THRESHOLD_KMH THEN FALSE
    ELSE (state.previous_speed_kmh - update.speed_kmh) * 100
             >= SPEED_DROP_PERCENT * state.previous_speed_kmh

\* AccidentDetector._detect_sudden_stop; state.previous_speed_kmh is the
\* speed stored by the car's preceding update (line 250)
detect_sudden_stop(update, state) ==
    IF state.previous_speed_kmh = None \/ update.speed_kmh = None THEN FALSE
    ELSE IF state.previous_speed_kmh < MIN_SPEED_BEFORE_STOP THEN FALSE
    ELSE IF update.speed_kmh > STOPPED_THRESHOLD_KMH THEN FALSE
    ELSE \* reduction = (prev - speed) / prev >= 0.70
         (state.previous_speed_kmh - update.speed_kmh) * 100
             >= SPEED_DROP_PERCENT * state.previous_speed_kmh

\* The notification dict of lines 182-189 and 293-300, as published on a
\* topic: <<"alerts/accident">> or <<"alerts/accident", car_id>>.
Notification(topic, car, accident) ==
    [topic |-> topic,
     target_car_id |-> car.car_id,
     event_id |-> accident.event_id,
     distance_m |-> haversine_distance_m(car.latitude, car.longitude,
                                         accident.latitude, accident.longitude)]

\* AccidentDetector._notify_nearby_vehicles: what it publishes
notify_nearby_vehicles(cars, accident) ==
    UNION { { Notification(<<"alerts/accident", id>>, cars[id], accident),
              Notification(<<"alerts/accident">>, cars[id], accident) }
            : id \in {c \in DOMAIN cars : should_notify_car(cars[c], accident)} }

\* The loop at the end of _on_car_update (lines 285-302): what it publishes
renotify_existing(accidents, state) ==
    { Notification(<<"alerts/accident", state.car_id>>, state, accidents[id])
      : id \in {a \in DOMAIN accidents :
                    accidents[a].active /\ should_notify_car(state, accidents[a])} }

cleanup_expired_accidents_purge(accidents, now) ==
    [id \in {a \in DOMAIN accidents :
                ~(accidents[a].active
                    /\ now - accidents[a].detected_at > ACCIDENT_EXPIRY_S)}
        |-> accidents[id]]

\* AccidentDetector._cleanup_expired_accidents, at clock reading now
cleanup_expired_accidents(accidents, now) ==
    [id \in DOMAIN accidents |->
        IF accidents[id].active /\ now - accidents[id].detected_at > ACCIDENT_EXPIRY_S
        THEN [accidents[id] EXCEPT !.active = FALSE]
        ELSE accidents[id]]

generate_event_id_time_only(counter, now) == <<now, 0>>

\* AccidentDetector._generate_event_id: f"ACC-{int(time.time())}-{counter}"
generate_event_id(counter, now) == <<now, counter + 1>>

first_sighting_notices_through_loop(accidents, state) ==
    renotify_existing(accidents, state)

\* What the handler publishes when it sees a car for the first time: it
\* returns at line 247, before the loop of lines 285-302
first_sighting_notices(accidents, state) == {}

\* state.previous_speed_kmh in a handler run that does not reach line 250
Unassigned == 0 - 2

\* CarState as the handler leaves it.  Of the dataclass's fields, timestamp
\* (never read) and previous_speed_kmh (assigned from speed_kmh at line 250
\* before its only reads, in _detect_sudden_stop) are not kept between runs.
CarState(update) ==
    [car_id |-> update.car_id,
     latitude |-> update.latitude,
     longitude |-> update.longitude,
     speed_kmh |-> update.speed_kmh,
     heading_deg |-> update.heading_deg]

\* AccidentDetector._on_car_update, for a payload that parses to update,
\* handled at clock reading now (the handler's readings of time.time(), lines
\* 235, 157, 102 and 201, are microseconds apart: one reading).
acc_on_car_update(update, now) ==
    /\ now >= clock
    /\ clock' = now
    /\ acc_last' = update
    /\ IF update.car_id \notin DOMAIN acc_cars
       THEN /\ acc_cars' = Put(acc_cars, update.car_id, CarState(update))
            /\ acc_published' = first_sighting_notices(active_accidents,
                                                        CarState(update))
            /\ acc_log' = {}
            /\ acc_previous' = Unassigned
            /\ acc_earlier' = Unassigned
            /\ acc_defined' = Put(acc_defined, update.car_id, update.speed_kmh)
            /\ UNCHANGED <<active_accidents, event_counter>>
       ELSE LET existing == acc_cars[update.car_id]
                state == [car_id |-> existing.car_id,
                          latitude |-> existing.latitude,
                          longitude |-> existing.longitude,
                          speed_kmh |-> existing.speed_kmh,
                          heading_deg |-> existing.heading_deg,
                          previous_speed_kmh |-> existing.speed_kmh]
                stop == detect_sudden_stop(update, state)
                create == stop /\ ~check_accident_cooldown(active_accidents, update, now)
                accident == [event_id |-> generate_event_id(event_counter, now),
                             latitude |-> update.latitude,
                             longitude |-> update.longitude,
                             source_vehicle_id |-> update.car_id,
                             detected_at |-> now,
                             active |-> TRUE]
                accidents1 == IF create
                              THEN Put(active_accidents, accident.event_id, accident)
                              ELSE active_accidents
                initial == IF create THEN notify_nearby_vehicles(acc_cars, accident)
                                     ELSE {}
                state2 == CarState(update)
            IN  /\ create => event_counter < MaxAccidents
                /\ event_counter' = IF create THEN event_counter + 1
                                              ELSE event_counter
                /\ acc_previous' = state.previous_speed_kmh
                /\ acc_earlier' = acc_defined[update.car_id]
                /\ acc_defined' = IF update.speed_kmh = None THEN acc_defined
                                  ELSE Put(acc_defined, update.car_id, update.speed_kmh)
                /\ acc_log' = (IF stop THEN {"SUDDEN STOP"} ELSE {})
                                  \cup (IF create THEN {"ACCIDENT DETECTED"} ELSE {})
                /\ acc_cars' = Put(acc_cars, update.car_id, state2)
                /\ acc_published' = initial \cup renotify_existing(accidents1, state2)
                /\ active_accidents' = cleanup_expired_accidents(accidents1, now)

\* What the accident detector receives: the updates, and payloads that are
\* none
AccPayloads ==
    { to_json(update) : update \in AccUpdates }
        \cup BadPayloadsOf([car_id |-> "c1", latitude |-> 0, longitude |-> 0,
                            speed_kmh |-> 30, heading_deg |-> 315])

\* AccidentDetector._on_car_update: the payload is parsed (lines 228-233,
\* logged and dropped if that fails) and the update handled
acc_handle_payload(payload, now) ==
    /\ inbound' = payload
    /\ IF parses(payload)
       THEN acc_on_car_update(from_dict(payload), now)
       ELSE /\ acc_last' = NoUpdate
            /\ acc_published' = {}
            /\ acc_log' = {}
            /\ acc_previous' = Unassigned
            /\ acc_earlier' = Unassigned
            /\ UNCHANGED <<clock, acc_cars, acc_defined, active_accidents,
                           event_counter>>

AccInit ==
    /\ clock = 0
    /\ acc_cars = EmptyMap
    /\ active_accidents = EmptyMap
    /\ event_counter = 0
    /\ acc_published = {}
    /\ acc_log = {}
    /\ acc_previous = Unassigned
    /\ acc_earlier = Unassigned
    /\ acc_defined = EmptyMap
    /\ acc_last = NoUpdate

AccUpdate ==
    /\ process = "accident_detector"
    /\ \E payload \in AccPayloads, now \in Times : acc_handle_payload(payload, now)
    /\ UNCHANGED <<process, hwy_vars, ovt_vars, spd_vars, pos_vars, loop_vars,
                   feed_vars>>

AccNext == AccUpdate

\* ------------------------------------------------ AccidentDetector: claims

\* The absolute difference of two angles, wrapped to at most 180 degrees.
AngularDifference(a, b) ==
    LET d == Abs(a - b) IN IF d > 180 THEN 360 - d ELSE d

\* The accident lies ahead of the car: heading known, less than 90 degrees
\* off the bearing from the car to the accident.
Ahead(car, accident) ==
    /\ car.heading_deg # None
    /\ AngularDifference(car.heading_deg,
                         bearing_deg(car.latitude, car.longitude,
                                     accident.latitude, accident.longitude)) < 90

\* The four conditions of eligibility of section 4.4.
Eligible(car, accident) ==
    /\ car.car_id # accident.source_vehicle_id
    /\ car.speed_kmh # None
    /\ car.speed_kmh >= STOPPED_THRESHOLD_KMH
    /\ haversine_distance_m(car.latitude, car.longitude,
                            accident.latitude, accident.longitude)
           <= NOTIFICATION_RADIUS_M * M
    /\ Ahead(car, accident)

\* C1: every notification published by the last handler run, at the creation
\* of an accident or on a later update, targets a car whose stored heading is
\* defined and less than 90 degrees (wrapped) off the bearing from the car to
\* the accident; so a car that has passed the accident (difference >= 90) is
\* sent nothing.
C1_NotifiedOnlyIfAhead ==
    \A m \in acc_published :
        Ahead(acc_cars[m.target_car_id], active_accidents[m.event_id])

\* C1's case: at the creation of an accident a car is notified of it, the
\* accident being ahead of the car only through the wrap (heading above 180,
\* bearing 0).
C1_Witness ==
    \E m \in acc_published :
        /\ m.topic = <<"alerts/accident">>
        /\ acc_cars[m.target_car_id].heading_deg > 180

\* The accident id is flagged active while the step's update is processed:
\* it was active when the update arrived, or the update created it.
ActiveDuringUpdate(id) ==
    id \in DOMAIN active_accidents => active_accidents[id].active

\* C2: an update from an already-tracked car publishes, while it is processed,
\* a notification naming the car and the accident for every active accident
\* for which the car is eligible after the update; nothing remembers earlier
\* notifications, so this holds again on every later update.
C2_NotifiedOnEveryEligibleUpdate ==
    [][ \A c \in DOMAIN acc_cars :
            acc_last'.car_id = c =>
                \A id \in DOMAIN active_accidents' :
                    (ActiveDuringUpdate(id)
                       /\ Eligible(acc_cars'[c], active_accidents'[id]))
                    => \E m \in acc_published' :
                          /\ m.topic = <<"alerts/accident", c>>
                          /\ m.target_car_id = c
                          /\ m.event_id = id ]_vars

\* C2's case: the car that sent the last update was notified of an accident
\* that an earlier update had created.
C2_Witness ==
    \E m \in acc_published :
        /\ m.target_car_id = acc_last.car_id
        /\ active_accidents[m.event_id].detected_at < clock

\* The sudden-stop rule on the previous and the new speed.
SuddenStopRule(previous_speed, current_speed) ==
    /\ previous_speed # None
    /\ current_speed # None
    /\ previous_speed >= MIN_SPEED_BEFORE_STOP
    /\ current_speed <= STOPPED_THRESHOLD_KMH
    /\ (previous_speed - current_speed) * 100 >= SPEED_DROP_PERCENT * previous_speed

\* The cooldown gate of section 4.4 for a stop at the update's position at
\* clock reading now, on the registry as the update finds it.
CooldownSuppresses(update, now) ==
    \E id \in DOMAIN active_accidents :
        /\ active_accidents[id].active
        /\ haversine_distance_m(update.latitude, update.longitude,
                                active_accidents[id].latitude,
                                active_accidents[id].longitude)
               <= PROXIMITY_RADIUS_M * M
        /\ now - active_accidents[id].detected_at < ACCIDENT_COOLDOWN_S

\* The step's update is a sudden stop of an already-tracked car.
StepIsSuddenStop ==
    /\ acc_last'.car_id \in DOMAIN acc_cars
    /\ SuddenStopRule(acc_cars[acc_last'.car_id].speed_kmh, acc_last'.speed_kmh)

\* The accidents the step adds to the registry.
NewAccidents == (DOMAIN active_accidents') \ (DOMAIN active_accidents)

C4_SuppressedStopLeavesRegistryUnchanged ==
    [][ (StepIsSuddenStop /\ CooldownSuppresses(acc_last', clock'))
        => /\ active_accidents' = active_accidents
           /\ event_counter' = event_counter
           /\ acc_cars'[acc_last'.car_id] = CarState(acc_last') ]_vars

\* C4, amended: a sudden stop that the cooldown gate suppresses (whichever
\* vehicle caused the earlier accident) adds no accident, removes none and
\* changes no field of a stored accident except that the expiry sweep ending
\* the update may turn active to false; the event counter is unchanged and the
\* stopping car's stored state is updated.
C4_SuppressedStopCreatesNoAccident ==
    [][ (StepIsSuddenStop /\ CooldownSuppresses(acc_last', clock'))
        => /\ DOMAIN active_accidents' = DOMAIN active_accidents
           /\ \A id \in DOMAIN active_accidents :
                 \/ active_accidents'[id] = active_accidents[id]
                 \/ /\ active_accidents[id].active
                    /\ active_accidents'[id]
                         = [active_accidents[id] EXCEPT !.active = FALSE]
           /\ event_counter' = event_counter
           /\ acc_cars'[acc_last'.car_id] = CarState(acc_last') ]_vars

\* C4's case: the last update was a sudden stop that created nothing, next to
\* a recent active accident that another vehicle had caused.
C4_Witness ==
    /\ acc_log = {"SUDDEN STOP"}
    /\ acc_cars[acc_last.car_id] = CarState(acc_last)
    /\ \E id \in DOMAIN active_accidents :
          /\ active_accidents[id].active
          /\ active_accidents[id].source_vehicle_id # acc_last.car_id
          /\ clock - active_accidents[id].detected_at < ACCIDENT_COOLDOWN_S
          /\ haversine_distance_m(acc_last.latitude, acc_last.longitude,
                                  active_accidents[id].latitude,
                                  active_accidents[id].longitude)
                 <= PROXIMITY_RADIUS_M * M

\* C5 as stated: every notification the last handler run published went out
\* both on alerts/accident/<car_id> and on alerts/accident.
C5_PublishedOnBothTopics ==
    \A m \in acc_published :
        /\ [m EXCEPT !.topic = <<"alerts/accident", m.target_car_id>>] \in acc_published
        /\ [m EXCEPT !.topic = <<"alerts/accident">>] \in acc_published

\* C15, as claimed: when an update has been processed, no accident older
\* than ACCIDENT_EXPIRY_S at the update's clock reading is still active.
C15_NoExpiredAccidentStaysActive ==
    \A id \in DOMAIN active_accidents :
        active_accidents[id].active
            => clock - active_accidents[id].detected_at <= ACCIDENT_EXPIRY_S

\* C17: the target of every notification is not the source vehicle of the
\* accident, its stored speed is defined and at least STOPPED_THRESHOLD_KMH,
\* and its stored position, like the distance the notification carries, is
\* at most NOTIFICATION_RADIUS_M from the accident.
C17_TargetIsMovingNonSourceInRadius ==
    \A m \in acc_published :
        LET car == acc_cars[m.target_car_id]
            accident == active_accidents[m.event_id]
        IN  /\ m.target_car_id # accident.source_vehicle_id
            /\ car.speed_kmh # None
            /\ car.speed_kmh >= STOPPED_THRESHOLD_KMH
            /\ m.distance_m <= NOTIFICATION_RADIUS_M * M
            /\ haversine_distance_m(car.latitude, car.longitude,
                                    accident.latitude, accident.longitude)
                   <= NOTIFICATION_RADIUS_M * M

\* C17's case: a notification whose target drives at STOPPED_THRESHOLD_KMH
\* exactly NOTIFICATION_RADIUS_M before the accident.
C17_Witness ==
    \E m \in acc_published :
        /\ m.distance_m = NOTIFICATION_RADIUS_M * M
        /\ acc_cars[m.target_car_id].speed_kmh = STOPPED_THRESHOLD_KMH

\* C18: no update removes a tracked car or a stored accident, and an
\* accident that is inactive stays inactive; of a stored accident nothing
\* but the active flag ever changes.
C18_RecordsOnlyGrow ==
    [][ /\ DOMAIN acc_cars \subseteq DOMAIN acc_cars'
        /\ DOMAIN active_accidents \subseteq DOMAIN active_accidents'
        /\ \A id \in DOMAIN active_accidents :
               /\ ~active_accidents[id].active => ~active_accidents'[id].active
               /\ [active_accidents'[id] EXCEPT !.active = TRUE]
                      = [active_accidents[id] EXCEPT !.active = TRUE]
      ]_vars

\* C18's case: an accident has expired and is still stored, inactive, next
\* to an active one, with both cars tracked.
C18_Witness ==
    /\ \E id \in DOMAIN active_accidents : ~active_accidents[id].active
    /\ \E id \in DOMAIN active_accidents : active_accidents[id].active
    /\ DOMAIN acc_cars = CarIds

\* C19: an accident that an update creates gets an event_id that no stored
\* accident has, is stored as active and raises the counter by one; the
\* stored accidents are always as many as the counter says.
C19_EventIdsAreFresh ==
    [][ /\ \A id \in (DOMAIN active_accidents') \ (DOMAIN active_accidents) :
               /\ active_accidents'[id].active
               /\ active_accidents'[id].event_id = id
               /\ event_counter' = event_counter + 1
        /\ event_counter' >= event_counter
        /\ Cardinality(DOMAIN active_accidents') = event_counter'
      ]_vars

\* C19's case: two accidents detected at the same clock reading are both
\* stored.
C19_Witness ==
    \E a, b \in DOMAIN active_accidents :
        /\ a # b
        /\ active_accidents[a].detected_at = active_accidents[b].detected_at

\* C33: a sudden stop is judged against the speed of the car's immediately
\* preceding update only: when the stored speed of the car is undefined, its
\* update creates no accident, whatever speeds the car reported before that
\* and however slow it is now.
C33_NoAccidentAfterUpdateWithoutSpeed ==
    [][ \A c \in DOMAIN acc_cars :
            (acc_last'.car_id = c /\ acc_cars[c].speed_kmh = None)
                => /\ NewAccidents = {}
                   /\ event_counter' = event_counter
                   /\ acc_log' = {}
                   /\ \A m \in acc_published' : m.topic # <<"alerts/accident">>
      ]_vars

\* C33's case: a car whose latest defined speed was at least
\* MIN_SPEED_BEFORE_STOP sent an update without speed and now reports at most
\* STOPPED_THRESHOLD_KMH, away from every recent accident; no sudden stop is
\* logged and no accident exists.
C33_Witness ==
    /\ acc_previous = None
    /\ acc_earlier # None
    /\ acc_earlier >= MIN_SPEED_BEFORE_STOP
    /\ acc_last.speed_kmh # None
    /\ acc_last.speed_kmh <= STOPPED_THRESHOLD_KMH
    /\ acc_log = {}
    /\ DOMAIN active_accidents = {}

\* C34, as claimed: every notification published by a handler run is about
\* an accident that is at most ACCIDENT_EXPIRY_S old at the run's clock
\* reading.
C34_NoNotificationOfExpiredAccident ==
    \A m \in acc_published :
        clock - active_accidents[m.event_id].detected_at <= ACCIDENT_EXPIRY_S

\* C35: the first update of a car only creates its CarState: nothing is
\* published, no accident is created, every stored accident and every other
\* car's state stay as they were.
C35_FirstUpdateOnlyCreatesState ==
    [][ (acc_last' # NoUpdate /\ acc_last'.car_id \notin DOMAIN acc_cars)
            => /\ acc_published' = {}
               /\ acc_log' = {}
               /\ active_accidents' = active_accidents
               /\ event_counter' = event_counter
               /\ DOMAIN acc_cars' = DOMAIN acc_cars \cup {acc_last'.car_id}
               /\ acc_cars'[acc_last'.car_id] = CarState(acc_last')
               /\ \A c \in DOMAIN acc_cars : acc_cars'[c] = acc_cars[c]
      ]_vars

\* C35's case: the handler has just seen a car for the first time, the car
\* is eligible for an active accident, and nothing was published.
C35_Witness ==
    /\ acc_last # NoUpdate
    /\ acc_previous = Unassigned
    /\ acc_published = {}
    /\ \E id \in DOMAIN active_accidents :
           /\ active_accidents[id].active
           /\ Eligible(acc_cars[acc_last.car_id], active_accidents[id])

\* The accidents a and b lie within PROXIMITY_RADIUS_M of each other.
Neighbours(a, b) ==
    haversine_distance_m(a.latitude, a.longitude, b.latitude, b.longitude)
        <= PROXIMITY_RADIUS_M * M

\* C36: any two stored accidents, active or not, that lie within
\* PROXIMITY_RADIUS_M of each other were detected at least
\* ACCIDENT_COOLDOWN_S apart.
C36_NeighbouringAccidentsAreCooldownApart ==
    \A a, b \in DOMAIN active_accidents :
        (a # b /\ Neighbours(active_accidents[a], active_accidents[b]))
            => Abs(active_accidents[a].detected_at - active_accidents[b].detected_at)
                   >= ACCIDENT_COOLDOWN_S

\* C36's case: two accidents exactly PROXIMITY_RADIUS_M apart were detected
\* exactly ACCIDENT_COOLDOWN_S apart.
C36_Witness ==
    \E a, b \in DOMAIN active_accidents :
        /\ haversine_distance_m(active_accidents[a].latitude,
                                active_accidents[a].longitude,
                                active_accidents[b].latitude,
                                active_accidents[b].longitude)
               = PROXIMITY_RADIUS_M * M
        /\ active_accidents[b].detected_at - active_accidents[a].detected_at
               = ACCIDENT_COOLDOWN_S

\* =================================================== HighwayEntryDetector

ENTRY_ZONE_M == 100
MERGE_POINT_DETECTION_M == 20
COLLISION_THRESHOLD_M == 10
PREDICTION_TIME_S == 5

\* _is_near_route's thresholds in _classify_car
ENTERING_THRESHOLD_M == 15
HIGHWAY_THRESHOLD_M == 25

\* Metres per degree of latitude: in _predict_collision's planar offsets, and
\* on haversine_distance_m's sphere (pi * R / 180, R = 6371000 m).
PLANAR_M_PER_DEG == 111000
SPHERE_M_PER_DEG == 111195

\* float('inf')
INF == 2000000000

\* The cars that send updates to the highway-entry detector.
HwyCarIds == {"c1", "c2", "c3"}

\* The road that the route files describe runs eastwards along the line
\* latitude = 0 and the entering lane joins it at the origin.  The content
\* of entering.json as _load_route reads it: a waypoint 30 m before the merge
\* point and one at it.
EnteringRoute == << [lat |-> 0, lon |-> (0 - 30) * M], [lat |-> 0, lon |-> 0] >>

\* The content of highway.json as _load_route reads it: waypoints from 60 m
\* before the merge point to 250 m past it.
HighwayRoute ==
    << [lat |-> 0, lon |-> (0 - 60) * M], [lat |-> 0, lon |-> (0 - 15) * M],
       [lat |-> 0, lon |-> 100 * M], [lat |-> 0, lon |-> 200 * M],
       [lat |-> 0, lon |-> 250 * M] >>

\* What the scenario lets each car report, <<millimetres east of the merge
\* point, speed_kmh, heading_deg>>.  c1 comes down the entering lane: 5.004 m
\* or 5 m before the merge point, 20 m before it (MERGE_POINT_DETECTION_M
\* exactly), standing, without heading, at the merge point, then 250 m down
\* the highway or 400 m away, off both corridors.
HwyProfilesC1 ==
    { <<0 - 5004, 36, 90>>, <<0 - 5000, 36, 90>>, <<0 - 20000, 36, 90>>,
      <<0 - 5004, 0, 90>>, <<0, 36, 90>>,
      <<0 - 5004, 36, None>>, <<250000, 36, 90>>, <<400000, 36, 90>> }

\* c2 drives on the highway: 15 m before the merge point (9.996 m or 10 m
\* behind c1; faster than c1, as fast), 60 m before it (faster than c1, as
\* fast, driving away westwards, without speed, standing), 100 m past it
\* (ENTRY_ZONE_M exactly), 250 m past it; or it takes the entering lane
\* itself.
HwyProfilesC2 ==
    { <<0 - 15000, 72, 90>>, <<0 - 15000, 36, 90>>, <<0 - 60000, 72, 90>>,
      <<0 - 60000, 36, 90>>,
      <<0 - 60000, 72, 270>>, <<0 - 60000, None, 90>>, <<0 - 60000, 0, 90>>,
      <<100000, 36, 90>>,
      <<250000, 72, 90>>, <<0 - 5004, 36, 90>> }

\* c3 drives on the highway: 60 m before the merge point, 200 m past it
\* (twice ENTRY_ZONE_M exactly).
HwyProfilesC3 == { <<0 - 60000, 72, 90>>, <<200000, 72, 90>> }

\* CarUpdate.from_dict of a well-formed payload.
HwyUpdatesOf(c, profiles) ==
    { [car_id |-> c, latitude |-> 0, longitude |-> p[1],
       speed_kmh |-> p[2], heading_deg |-> p[3]] : p \in profiles }

HwyUpdates ==
    HwyUpdatesOf("c1", HwyProfilesC1) \cup HwyUpdatesOf("c2", HwyProfilesC2)
        \cup HwyUpdatesOf("c3", HwyProfilesC3)

\* HighwayEntryDetector._load_route: the coordinates, or [] when the file is
\* missing or unreadable
load_route(route) == {route, << >>}

\* HighwayEntryDetector._find_merge_point
find_merge_point(coords) ==
    IF coords = << >> THEN {} ELSE {coords[Len(coords)]}

is_near_route_or_no_route(lat, lon, route, threshold_m) ==
    \/ route = << >>
    \/ \E i \in 1..Len(route) :
           haversine_distance_m(lat, lon, route[i].lat, route[i].lon) < threshold_m * M

\* HighwayEntryDetector._is_near_route
is_near_route(lat, lon, route, threshold_m) ==
    \E i \in 1..Len(route) :
        haversine_distance_m(lat, lon, route[i].lat, route[i].lon) < threshold_m * M

classify_car_highway_first(update) ==
    IF is_near_route(update.latitude, update.longitude, highway_coords,
                     HIGHWAY_THRESHOLD_M)
    THEN "highway"
    ELSE IF is_near_route(update.latitude, update.longitude, entering_coords,
                          ENTERING_THRESHOLD_M)
    THEN "entering"
    ELSE "none"

\* HighwayEntryDetector._classify_car; "none" is None
classify_car(update) ==
    IF is_near_route(update.latitude, update.longitude, entering_coords,
                     ENTERING_THRESHOLD_M)
    THEN "entering"
    ELSE IF is_near_route(update.latitude, update.longitude, highway_coords,
                          HIGHWAY_THRESHOLD_M)
    THEN "highway"
    ELSE "none"

\* HighwayEntryDetector._distance_to_merge_point
distance_to_merge_point(lat, lon) ==
    IF merge_point = {} THEN INF
    ELSE LET mp == CHOOSE p \in merge_point : TRUE
         IN  haversine_distance_m(lat, lon, mp.lat, mp.lon)

\* 1000 * math.cos(math.radians(heading_deg)), on the headings the model draws
Cos1000(heading_deg) ==
    CASE heading_deg = 0 -> 1000
      [] heading_deg = 30 -> 866
      [] heading_deg = 90 -> 0
      [] heading_deg = 180 -> 0 - 1000
      [] heading_deg = 270 -> 0
      [] heading_deg = 330 -> 866

\* 1000 * math.sin(math.radians(heading_deg)), on the headings the model draws
Sin1000(heading_deg) ==
    CASE heading_deg = 0 -> 0
      [] heading_deg = 30 -> 500
      [] heading_deg = 90 -> 1000
      [] heading_deg = 180 -> 0
      [] heading_deg = 270 -> 0 - 1000
      [] heading_deg = 330 -> 0 - 500

\* x * num / den rounded towards zero
MulDiv(x, num, den) ==
    IF x < 0 THEN 0 - (((0 - x) * num) \div den) ELSE (x * num) \div den

\* The arc length (mm) of the offset in degrees that _predict_collision gives
\* a planar displacement of d mm: d / 111000 degrees, 111195 m each.
PlanarOffset(d) == d + MulDiv(d, SPHERE_M_PER_DEG - PLANAR_M_PER_DEG, PLANAR_M_PER_DEG)

\* (speed_kmh or 0) / 3.6 * (t / 10.0), in mm
TravelledMm(speed_kmh, t) ==
    ((IF speed_kmh = None THEN 0 ELSE speed_kmh) * t * 1000) \div 36

\* _predict_collision, lines 164-196: a car's predicted position t tenths of
\* a second ahead
PredictedPosition(car, t) ==
    IF car.heading_deg # None
    THEN LET dist == TravelledMm(car.speed_kmh, t)
         IN  [lat |-> car.latitude
                        + PlanarOffset(MulDiv(dist, Cos1000(car.heading_deg), 1000)),
              lon |-> car.longitude
                        + PlanarOffset(MulDiv(dist, Sin1000(car.heading_deg), 1000))]
    ELSE [lat |-> car.latitude, lon |-> car.longitude]

\* _predict_collision, lines 198-202: the predicted separation at step t
PredictedDistance(entering_car, highway_car, t) ==
    LET e == PredictedPosition(entering_car, t)
        h == PredictedPosition(highway_car, t)
    IN  haversine_distance_m(e.lat, e.lon, h.lat, h.lon)

\* range(1, int(self.PREDICTION_TIME_S * 10)): its last element
LastPredictionStep == PREDICTION_TIME_S * 10 - 1

RECURSIVE PredictionLoop_latest(_, _, _, _, _)
PredictionLoop_latest(entering_car, highway_car, t, time_to_min_distance, min_distance) ==
    IF t > LastPredictionStep THEN <<time_to_min_distance, min_distance>>
    ELSE LET pred_distance == PredictedDistance(entering_car, highway_car, t)
         IN  IF pred_distance <= min_distance
             THEN PredictionLoop_latest(entering_car, highway_car, t + 1, t,
                                        pred_distance)
             ELSE PredictionLoop_latest(entering_car, highway_car, t + 1,
                                        time_to_min_distance, min_distance)

RECURSIVE PredictionLoop(_, _, _, _, _)
\* _predict_collision, the loop of lines 161-206 from step t on:
\* <<time_to_min_distance (tenths of a second), min_distance>>
PredictionLoop(entering_car, highway_car, t, time_to_min_distance, min_distance) ==
    IF t > LastPredictionStep THEN <<time_to_min_distance, min_distance>>
    ELSE LET pred_distance == PredictedDistance(entering_car, highway_car, t)
         IN  IF pred_distance < min_distance
             THEN PredictionLoop(entering_car, highway_car, t + 1, t, pred_distance)
             ELSE PredictionLoop(entering_car, highway_car, t + 1,
                                 time_to_min_distance, min_distance)

predict_collision_le(entering_car, highway_car) ==
    LET current_distance ==
            haversine_distance_m(entering_car.latitude, entering_car.longitude,
                                 highway_car.latitude, highway_car.longitude)
    IN  IF current_distance < COLLISION_THRESHOLD_M * M
        THEN <<TRUE, 0, current_distance>>
        ELSE LET r == PredictionLoop(entering_car, highway_car, 1, 0, current_distance)
             IN  <<r[2] <= COLLISION_THRESHOLD_M * M, r[1], r[2]>>

\* HighwayEntryDetector._predict_collision, lines 138-211:
\* <<collision, time_to_collision (tenths of a second), closest_distance>>
simulate_collision(entering_car, highway_car) ==
    LET current_distance ==
            haversine_distance_m(entering_car.latitude, entering_car.longitude,
                                 highway_car.latitude, highway_car.longitude)
    IN  IF current_distance < COLLISION_THRESHOLD_M * M
        THEN <<TRUE, 0, current_distance>>
        ELSE LET r == PredictionLoop(entering_car, highway_car, 1, 0, current_distance)
             IN  <<r[2] < COLLISION_THRESHOLD_M * M, r[1], r[2]>>

\* What _predict_collision returns for every two updates the model draws: a
\* table (joined with the empty map, which makes TLC build it once), so that
\* the simulation of a pair is run once and not in every state
PredictedCollisions ==
    [pair \in HwyUpdates \X HwyUpdates |-> simulate_collision(pair[1], pair[2])]
        @@ EmptyMap

\* HighwayEntryDetector._predict_collision:
\* <<collision, time_to_collision (tenths of a second), closest_distance>>
predict_collision(entering_car, highway_car) ==
    PredictedCollisions[<<entering_car, highway_car>>]

\* round(min_dist, 2): millimetres to hundredths of a metre (the model draws
\* no distance that ends in 5 mm, where the float's binary expansion decides)
Round2(mm) == (mm + 5) \div 10

\* The alert dict of lines 274-286 (unsafe) and 298-309 (safe); the safe
\* alert has no time_to_closest_approach_s (None).  predicted_min_distance_m
\* is in hundredths of a metre, time_to_closest_approach_s in tenths of a
\* second (round(ttc, 2) changes no multiple of 0.1).
HwyAlert(update, highway_car, prediction) ==
    [alert_type |-> IF prediction[1] THEN "highway_entry_unsafe"
                                     ELSE "highway_entry_safe",
     entering_car_id |-> update.car_id,
     highway_car_id |-> highway_car.car_id,
     entering_speed_kmh |-> update.speed_kmh,
     highway_speed_kmh |-> highway_car.speed_kmh,
     predicted_min_distance_m |-> Round2(prediction[3]),
     time_to_closest_approach_s |-> IF prediction[1] THEN prediction[2] ELSE None,
     status |-> IF prediction[1] THEN "unsafe" ELSE "safe",
     latitude |-> update.latitude,
     longitude |-> update.longitude]

\* The call of _predict_collision at line 267 and what it returned
Prediction(update, highway_car, prediction) ==
    [entering_car |-> update,
     highway_car |-> highway_car,
     collision |-> prediction[1],
     time_to_collision |-> prediction[2],
     closest_distance |-> prediction[3]]

analysed_highway_cars_with_stationary(cars, highway, update) ==
    IF distance_to_merge_point(update.latitude, update.longitude)
           < MERGE_POINT_DETECTION_M * M
    THEN { h \in highway :
             /\ h \in DOMAIN cars
             /\ distance_to_merge_point(cars[h].latitude, cars[h].longitude)
                    < ENTRY_ZONE_M * M }
    ELSE {}

analysed_highway_cars_le(cars, highway, update) ==
    IF distance_to_merge_point(update.latitude, update.longitude)
           <= MERGE_POINT_DETECTION_M * M
    THEN { h \in highway :
             /\ h \in DOMAIN cars
             /\ ~(cars[h].speed_kmh = None \/ cars[h].heading_deg = None)
             /\ cars[h].speed_kmh # 0
             /\ distance_to_merge_point(cars[h].latitude, cars[h].longitude)
                    < ENTRY_ZONE_M * M }
    ELSE {}

\* _on_car_update, lines 238-264: the highway cars an entering car's update
\* is analysed against
analysed_highway_cars(cars, highway, update) ==
    IF distance_to_merge_point(update.latitude, update.longitude)
           < MERGE_POINT_DETECTION_M * M
    THEN { h \in highway :
             /\ h \in DOMAIN cars
             /\ ~(cars[h].speed_kmh = None \/ cars[h].heading_deg = None)
             /\ cars[h].speed_kmh # 0
             /\ distance_to_merge_point(cars[h].latitude, cars[h].longitude)
                    < ENTRY_ZONE_M * M }
    ELSE {}

alert_every_time(pairs, pair_key, collision) == TRUE

alert_unless_unsafe_pending(pairs, pair_key, collision) ==
    pair_key \notin pairs \/ collision

\* _on_car_update, lines 271-273 and 295-297: whether the pair is alerted
alert_if_new_pair(pairs, pair_key, collision) ==
    (collision /\ pair_key \notin pairs) \/ (~collision /\ pair_key \notin pairs)

discard_nothing(cars, car_id) == cars

\* set.discard, lines 236 and 320
discard(cars, car_id) == cars \ {car_id}

\* _on_car_update, lines 321-328: the registry after a highway car's update
cleanup_alerted_pairs(pairs, update) ==
    IF distance_to_merge_point(update.latitude, update.longitude) > ENTRY_ZONE_M * 2 * M
    THEN { pair \in pairs : update.car_id # pair[1] /\ update.car_id # pair[2] }
    ELSE pairs

\* HighwayEntryDetector._on_car_update, for a payload that parses to update
hwy_on_car_update(update) ==
    LET cars1 == Put(hwy_cars, update.car_id, update)
        car_type == classify_car(update)
    IN  /\ hwy_cars' = cars1
        /\ hwy_last' = update
        /\ UNCHANGED <<highway_coords, entering_coords, merge_point>>
        /\ IF update.speed_kmh = None \/ update.heading_deg = None
           THEN /\ hwy_published' = {}
                /\ hwy_predicted' = {}
                /\ UNCHANGED <<highway_cars, entering_cars, alerted_pairs,
                               safe_alerted>>
           ELSE IF update.speed_kmh = 0
           THEN /\ hwy_published' = {}
                /\ hwy_predicted' = {}
                /\ UNCHANGED <<highway_cars, entering_cars, alerted_pairs,
                               safe_alerted>>
           ELSE IF car_type = "entering"
           THEN LET highway1 == discard(highway_cars, update.car_id)
                    analysed == analysed_highway_cars(cars1, highway1, update)
                IN  /\ entering_cars' = entering_cars \cup {update.car_id}
                    /\ highway_cars' = highway1
                    /\ hwy_predicted' =
                           { Prediction(update, cars1[h],
                                        predict_collision(update, cars1[h]))
                             : h \in analysed }
                    /\ LET alerted ==
                               { p \in hwy_predicted' :
                                   alert_if_new_pair(alerted_pairs,
                                       <<update.car_id, p.highway_car.car_id>>,
                                       p.collision) }
                       IN  /\ hwy_published' =
                                  { HwyAlert(update, p.highway_car,
                                             <<p.collision, p.time_to_collision,
                                               p.closest_distance>>)
                                    : p \in alerted }
                           /\ alerted_pairs' =
                                  alerted_pairs
                                      \cup { <<update.car_id, p.highway_car.car_id>>
                                             : p \in alerted }
                           /\ safe_alerted' =
                                  safe_alerted
                                      \cup { <<update.car_id, p.highway_car.car_id>>
                                             : p \in {q \in alerted : ~q.collision} }
           ELSE IF car_type = "highway"
           THEN /\ highway_cars' = highway_cars \cup {update.car_id}
                /\ entering_cars' = discard(entering_cars, update.car_id)
                /\ alerted_pairs' = cleanup_alerted_pairs(alerted_pairs, update)
                /\ safe_alerted' = safe_alerted \cap alerted_pairs'
                /\ hwy_published' = {}
                /\ hwy_predicted' = {}
           ELSE /\ hwy_published' = {}
                /\ hwy_predicted' = {}
                /\ UNCHANGED <<highway_cars, entering_cars, alerted_pairs,
                               safe_alerted>>

\* What the highway-entry detector receives
HwyPayloads ==
    { to_json(update) : update \in HwyUpdates }
        \cup BadPayloadsOf([car_id |-> "c2", latitude |-> 0, longitude |-> 0 - 60000,
                            speed_kmh |-> 72, heading_deg |-> 90])

\* HighwayEntryDetector._on_car_update: the payload is parsed (lines 214-218,
\* logged and dropped if that fails) and the update handled
hwy_handle_payload(payload) ==
    /\ inbound' = payload
    /\ IF parses(payload)
       THEN hwy_on_car_update(from_dict(payload))
       ELSE /\ hwy_last' = NoUpdate
            /\ hwy_published' = {}
            /\ hwy_predicted' = {}
            /\ UNCHANGED <<hwy_cars, highway_cars, entering_cars, highway_coords,
                           entering_coords, merge_point, alerted_pairs,
                           safe_alerted>>

\* HighwayEntryDetector.__init__
HwyInit ==
    /\ hwy_cars = EmptyMap
    /\ highway_cars = {}
    /\ entering_cars = {}
    /\ highway_coords = HighwayRoute
    /\ entering_coords \in load_route(EnteringRoute)
    /\ merge_point = find_merge_point(entering_coords)
    /\ alerted_pairs = {}
    /\ hwy_published = {}
    /\ hwy_predicted = {}
    /\ safe_alerted = {}
    /\ hwy_last = NoUpdate

HwyUpdate ==
    /\ process = "highway_entry_detector"
    /\ \E payload \in HwyPayloads : hwy_handle_payload(payload)
    /\ UNCHANGED <<process, acc_vars, ovt_vars, spd_vars, pos_vars, loop_vars,
                   feed_vars>>

HwyNext == HwyUpdate

\* ------------------------------------------ HighwayEntryDetector: claims

\* The cars the alert a is about
AlertPair(a) == <<a.entering_car_id, a.highway_car_id>>

\* The smallest of the current separation and the separations predicted
\* every tenth of a second up to LastPredictionStep
MinSeparation(entering_car, highway_car) ==
    LET ds == { PredictedDistance(entering_car, highway_car, t)
                : t \in 0..LastPredictionStep }
    IN  CHOOSE d \in ds : \A e \in ds : d <= e

\* The earliest step at which the separation is MinSeparation
TimeOfMinSeparation(entering_car, highway_car) ==
    LET ts == { t \in 0..LastPredictionStep :
                  PredictedDistance(entering_car, highway_car, t)
                      = MinSeparation(entering_car, highway_car) }
    IN  CHOOSE t \in ts : \A u \in ts : t <= u

\* The separation now
CurrentSeparation(entering_car, highway_car) ==
    PredictedDistance(entering_car, highway_car, 0)

\* COLLISION_THRESHOLD_M in the unit of predicted_min_distance_m
ThresholdRounded == COLLISION_THRESHOLD_M * 100

C7_AtMostOneAlertPerPairPerApproach ==
    [][ /\ \A a \in hwy_published' :
               /\ AlertPair(a) \notin alerted_pairs
               /\ AlertPair(a) \in alerted_pairs'
        /\ \A a, b \in hwy_published' : AlertPair(a) = AlertPair(b) => a = b
      ]_vars

\* C7's case: the entering car of an alerted pair reports again from inside
\* the merge zone, with the highway car still in the entry zone, and nothing
\* is published.
C7_Witness ==
    /\ hwy_published = {}
    /\ hwy_last.car_id \in HwyCarIds
    /\ \E h \in analysed_highway_cars(hwy_cars, highway_cars, hwy_last) :
           <<hwy_last.car_id, h>> \in alerted_pairs
    /\ classify_car(hwy_last) = "entering"
    /\ hwy_last.speed_kmh \notin {None, 0}
    /\ hwy_last.heading_deg # None

\* C8, as claimed: an update from the entering car of an alerted pair that
\* reports a position farther than 2 * ENTRY_ZONE_M from the merge point
\* removes the pair from the alerted-pair registry.
C8_PairRemovedWhenEnteringCarLeaves ==
    [][ \A pair \in alerted_pairs :
            ( /\ hwy_last'.car_id = pair[1]
              /\ merge_point # {}
              /\ distance_to_merge_point(hwy_last'.latitude, hwy_last'.longitude)
                     > 2 * ENTRY_ZONE_M * M )
            => pair \notin alerted_pairs'
      ]_vars

\* Whether the update, stored as the last one, started an analysis
Triggers(update) ==
    /\ classify_car(update) = "entering"
    /\ update.heading_deg # None
    /\ update.speed_kmh # None
    /\ update.speed_kmh # 0
    /\ distance_to_merge_point(update.latitude, update.longitude)
           < MERGE_POINT_DETECTION_M * M

\* Whether the stored update of a car in the highway role set is analysed
InEntryZone(car) ==
    /\ car.heading_deg # None
    /\ car.speed_kmh # None
    /\ car.speed_kmh # 0
    /\ distance_to_merge_point(car.latitude, car.longitude) < ENTRY_ZONE_M * M

\* C9: an alert is published only during an update from a car classified as
\* entering, with heading and non-zero speed, less than
\* MERGE_POINT_DETECTION_M from the merge point, and only about a car in the
\* highway role set whose stored update has heading, non-zero speed and a
\* position less than ENTRY_ZONE_M from the merge point; and such an update
\* publishes an alert for every such highway car whose pair is not in the
\* registry.
C9_AlertOnlyAndAlwaysInsideMergeZone ==
    [][ /\ \A a \in hwy_published' :
               /\ a.entering_car_id = hwy_last'.car_id
               /\ Triggers(hwy_last')
               /\ a.highway_car_id \in highway_cars'
               /\ a.highway_car_id \in DOMAIN hwy_cars'
               /\ InEntryZone(hwy_cars'[a.highway_car_id])
        /\ (hwy_last'.car_id \in HwyCarIds /\ Triggers(hwy_last'))
               => \A h \in highway_cars' :
                      ( /\ h \in DOMAIN hwy_cars'
                        /\ InEntryZone(hwy_cars'[h])
                        /\ <<hwy_last'.car_id, h>> \notin alerted_pairs )
                      => \E a \in hwy_published' :
                             AlertPair(a) = <<hwy_last'.car_id, h>>
      ]_vars

\* C9's case: an update publishes an alert about one highway car while
\* another car of the highway role set is ENTRY_ZONE_M or more from the merge
\* point and gets none.
C9_Witness ==
    /\ hwy_published # {}
    /\ \E h \in highway_cars :
           /\ distance_to_merge_point(hwy_cars[h].latitude, hwy_cars[h].longitude)
                  >= ENTRY_ZONE_M * M
           /\ \A a \in hwy_published : a.highway_car_id # h

\* Whether the update has a heading and a speed that is not zero
Classified(update) ==
    /\ update # NoUpdate
    /\ update.heading_deg # None
    /\ update.speed_kmh # None
    /\ update.speed_kmh # 0

\* C22: no car is in both role sets, and no alert names one car as the
\* entering and as the highway car.
C22_RoleSetsAreDisjoint ==
    /\ entering_cars \cap highway_cars = {}
    /\ \A a \in hwy_published : a.entering_car_id # a.highway_car_id

\* C22's case: c2, the highway car of an alerted pair, has reported from the
\* entering lane and is in the entering role set.
C22_Witness ==
    /\ hwy_last.car_id = "c2"
    /\ "c2" \in entering_cars
    /\ <<"c1", "c2">> \in alerted_pairs

\* C23, as claimed: after an update with heading and non-zero speed the car
\* is in entering_cars only if the update is classified as entering, in
\* highway_cars only if it is classified as highway, and in neither set if it
\* is not classified.
C23_MembershipFollowsClassification ==
    [][ Classified(hwy_last') =>
          /\ hwy_last'.car_id \in entering_cars'
                 => classify_car(hwy_last') = "entering"
          /\ hwy_last'.car_id \in highway_cars'
                 => classify_car(hwy_last') = "highway"
      ]_vars

\* Whether the stored update of a car is one that is recorded only
Unanalysable(car) ==
    car.speed_kmh = None \/ car.heading_deg = None \/ car.speed_kmh = 0

\* C24: an update without speed, without heading or with speed 0 replaces
\* the car's stored update, leaves the role sets and the alerted-pair
\* registry as they were and publishes nothing; and no collision is
\* predicted with, and no alert published about, a highway car whose stored
\* update is of that kind.
C24_UnanalysableUpdateIsOnlyRecorded ==
    [][ hwy_last' # NoUpdate =>
          /\ Unanalysable(hwy_last') =>
                 /\ hwy_cars'[hwy_last'.car_id] = hwy_last'
                 /\ UNCHANGED <<highway_cars, entering_cars, alerted_pairs>>
                 /\ hwy_published' = {}
          /\ \A p \in hwy_predicted' : ~Unanalysable(p.highway_car)
          /\ \A a \in hwy_published' : ~Unanalysable(hwy_cars'[a.highway_car_id])
          /\ \A pair \in alerted_pairs' \ alerted_pairs :
                 ~Unanalysable(hwy_cars'[pair[2]])
      ]_vars

\* C24's case: c1 reports from inside the merge zone while the highway car
\* c2 is stored standing 60 m before the merge point, and nothing is
\* predicted or published.
C24_Witness ==
    /\ hwy_last.car_id = "c1"
    /\ Triggers(hwy_last)
    /\ "c2" \in highway_cars
    /\ hwy_cars["c2"].speed_kmh = 0
    /\ InEntryZone([hwy_cars["c2"] EXCEPT !.speed_kmh = 36])
    /\ hwy_predicted = {}
    /\ hwy_published = {}
    /\ <<"c1", "c2">> \notin alerted_pairs

\* C25: what _predict_collision returns is (TRUE, 0, current separation) when
\* the current separation is below COLLISION_THRESHOLD_M; otherwise the
\* smallest of the current and the sampled future separations, the earliest
\* step at which it is attained (0 for now) and whether it is below
\* COLLISION_THRESHOLD_M; the distance returned never exceeds the current
\* separation.
C25_PredictionIsEarliestMinimum ==
    \A p \in hwy_predicted :
        LET e == p.entering_car
            h == p.highway_car
            current == haversine_distance_m(e.latitude, e.longitude,
                                            h.latitude, h.longitude)
        IN  /\ p.closest_distance <= current
            /\ IF current < COLLISION_THRESHOLD_M * M
               THEN /\ p.collision
                    /\ p.time_to_collision = 0
                    /\ p.closest_distance = current
               ELSE /\ p.closest_distance = MinSeparation(e, h)
                    /\ p.time_to_collision = TimeOfMinSeparation(e, h)
                    /\ p.collision = (MinSeparation(e, h) < COLLISION_THRESHOLD_M * M)

\* C25's case: two predictions of one update, one for cars that keep their
\* separation of COLLISION_THRESHOLD_M (time 0, no collision) and one for a
\* highway car that closes in (a later step, collision).
C25_Witness ==
    /\ \E p \in hwy_predicted :
           /\ p.closest_distance = COLLISION_THRESHOLD_M * M
           /\ p.time_to_collision = 0
           /\ ~p.collision
           /\ PredictedDistance(p.entering_car, p.highway_car, LastPredictionStep)
                  = COLLISION_THRESHOLD_M * M
    /\ \E p \in hwy_predicted :
           /\ p.time_to_collision > 0
           /\ p.collision

\* C26, as claimed: the simulation takes the separation PREDICTION_TIME_S
\* ahead into account, so that it reports a collision whenever the cars, not
\* yet closer than COLLISION_THRESHOLD_M, are closer than that
\* PREDICTION_TIME_S from now.
C26_SeparationAtWindowEndCounts ==
    \A p \in hwy_predicted :
        PredictedDistance(p.entering_car, p.highway_car, PREDICTION_TIME_S * 10)
            < COLLISION_THRESHOLD_M * M
        => p.collision

\* C27: an update with heading and non-zero speed puts its car into
\* entering_cars (and out of highway_cars) when it is less than
\* ENTERING_THRESHOLD_M from an entering waypoint, whatever its distance from
\* the highway waypoints; into highway_cars (and out of entering_cars) when
\* it is not, and is less than HIGHWAY_THRESHOLD_M from a highway waypoint;
\* and leaves both sets alone otherwise.  The merge point is the last
\* entering waypoint (none without waypoints).
C27_ClassificationPrefersEntering ==
    [][ /\ Classified(hwy_last') =>
               LET c == hwy_last'.car_id
                   near_entering ==
                       \E i \in 1..Len(entering_coords) :
                           haversine_distance_m(hwy_last'.latitude, hwy_last'.longitude,
                                                entering_coords[i].lat,
                                                entering_coords[i].lon)
                               < ENTERING_THRESHOLD_M * M
                   near_highway ==
                       \E i \in 1..Len(highway_coords) :
                           haversine_distance_m(hwy_last'.latitude, hwy_last'.longitude,
                                                highway_coords[i].lat,
                                                highway_coords[i].lon)
                               < HIGHWAY_THRESHOLD_M * M
               IN  IF near_entering
                   THEN c \in entering_cars' /\ c \notin highway_cars'
                   ELSE IF near_highway
                   THEN c \in highway_cars' /\ c \notin entering_cars'
                   ELSE UNCHANGED <<entering_cars, highway_cars>>
        /\ IF entering_coords' = << >>
           THEN merge_point' = {}
           ELSE merge_point' = {entering_coords'[Len(entering_coords')]}
      ]_vars

\* C27's case: c1 is in the entering role set after an update 5 m from the
\* last entering waypoint and 10 m from a highway waypoint, c2 in the
\* highway role set after one at a highway waypoint ENTERING_THRESHOLD_M
\* from the entering waypoints.
C27_Witness ==
    /\ "c1" \in entering_cars
    /\ "c1" \notin highway_cars
    /\ hwy_cars["c1"].longitude = 0 - 5000
    /\ Classified(hwy_cars["c1"])
    /\ hwy_last.car_id = "c2"
    /\ hwy_last.longitude = 0 - 15000
    /\ Classified(hwy_last)
    /\ "c2" \in highway_cars
    /\ merge_point = {[lat |-> 0, lon |-> 0]}

\* C37: while a pair registered by a highway_entry_safe alert is in the
\* registry, no alert of either kind is published for it, whatever the
\* prediction; the pair stays marked until the registry drops it.
C37_SafeAlertBlocksLaterAlerts ==
    [][ \A pair \in safe_alerted :
            /\ pair \in alerted_pairs
            /\ \A a \in hwy_published' : AlertPair(a) # pair
            /\ pair \in alerted_pairs' => pair \in safe_alerted'
      ]_vars

\* C37's case: the entering car of a pair registered by a safe alert reports
\* from inside the merge zone, a collision with the pair's highway car is
\* predicted, and no alert is published for the pair.
C37_Witness ==
    \E p \in hwy_predicted :
        /\ p.collision
        /\ <<p.entering_car.car_id, p.highway_car.car_id>> \in safe_alerted
        /\ \A a \in hwy_published :
               AlertPair(a) # <<p.entering_car.car_id, p.highway_car.car_id>>

\* C38: when the entering corridor has no waypoints there is no merge point,
\* no car is or becomes an entering car, nothing is predicted, published or
\* registered, and every update that parses is still stored.
C38_NoEnteringCorridorNoAlerts ==
    [][ entering_coords = << >>
            => /\ merge_point = {} /\ merge_point' = {}
               /\ entering_cars = {} /\ entering_cars' = {}
               /\ hwy_predicted' = {}
               /\ hwy_published' = {}
               /\ alerted_pairs' = {}
               /\ hwy_last' # NoUpdate
                      => /\ classify_car(hwy_last') # "entering"
                         /\ hwy_cars'[hwy_last'.car_id] = hwy_last'
      ]_vars

\* C38's case: without the entering corridor, a moving car reports from
\* where the corridor's merge zone would be, a moving highway car is within
\* ENTRY_ZONE_M of that place, and nothing is published.
C38_Witness ==
    LET mp == EnteringRoute[Len(EnteringRoute)] IN
    /\ entering_coords = << >>
    /\ hwy_last.speed_kmh \notin {None, 0}
    /\ hwy_last.heading_deg # None
    /\ is_near_route(hwy_last.latitude, hwy_last.longitude, EnteringRoute,
                     ENTERING_THRESHOLD_M)
    /\ haversine_distance_m(hwy_last.latitude, hwy_last.longitude, mp.lat, mp.lon)
           < MERGE_POINT_DETECTION_M * M
    /\ hwy_cars[hwy_last.car_id] = hwy_last
    /\ \E h \in highway_cars \ {hwy_last.car_id} :
           /\ ~Unanalysable(hwy_cars[h])
           /\ haversine_distance_m(hwy_cars[h].latitude, hwy_cars[h].longitude,
                                   mp.lat, mp.lon) < ENTRY_ZONE_M * M
    /\ hwy_published = {}

\* ====================================================== OvertakingDetector

PROXIMITY_M == 50
HEADING_TOLERANCE_DEG == 30

\* What self.relative_positions.get(key) returns for a missing key (None)
NoSign == 0

\* The cars that send updates to the overtaking detector.
OvtCarIds == {"c1", "c2", "c3"}

\* What each car reports on a road that runs north along the meridian
\* longitude = 0, <<metres north, speed_kmh, heading_deg>>.  c1 passes c2
\* and c3: behind them, ahead of them, PROXIMITY_M ahead of them; or it
\* turns round, bears off by HEADING_TOLERANCE_DEG, or reports no speed or
\* no heading.
OvtProfilesC1 ==
    { <<0, 50, 0>>, <<20, 50, 0>>, <<60, 50, 0>>, <<20, 50, 180>>,
      <<20, 50, 30>>, <<20, None, 0>>, <<20, 50, None>> }

\* c2 keeps its place, bears off the other way, or is PROXIMITY_M and more
\* ahead of c1
OvtProfilesC2 == { <<10, 50, 0>>, <<10, 50, 330>>, <<70, 50, 0>> }

\* c3 drives where c2 does
OvtProfilesC3 == { <<10, 50, 0>> }

\* CarUpdate.from_dict of a well-formed payload.
OvtUpdatesOf(c, profiles) ==
    { [car_id |-> c, latitude |-> p[1] * M, longitude |-> 0,
       speed_kmh |-> p[2], heading_deg |-> p[3]] : p \in profiles }

OvtUpdates ==
    OvtUpdatesOf("c1", OvtProfilesC1) \cup OvtUpdatesOf("c2", OvtProfilesC2)
        \cup OvtUpdatesOf("c3", OvtProfilesC3)

\* OvertakingDetector._projection_sign.  hx, hy are 1000 * sin, 1000 * cos of
\* the heading; where the rounded product is 0 with a vector that is not,
\* the floating-point residues of sin(pi) > 0 and cos(pi/2) > 0 decide.
projection_sign(ax, ay, bx, by, heading_deg) ==
    LET hx == Sin1000(heading_deg)
        hy == Cos1000(heading_deg)
        vx == bx - ax
        vy == by - ay
        dot == vx * hx + vy * hy
        residue == IF heading_deg = 180 THEN vx
                   ELSE IF heading_deg = 90 THEN vy
                   ELSE 0
    IN  IF dot > 0 \/ (dot = 0 /\ residue >= 0) THEN 1 ELSE 0 - 1

overtook_unless_behind(previous_sign, sign) ==
    previous_sign # 0 - 1 /\ sign = 0 - 1

\* _on_car_update, line 111: whether the stored and the new sign make an
\* overtaking
overtook(previous_sign, sign) ==
    previous_sign = 1 /\ sign = 0 - 1

\* abs(a - b) wrapped to at most 180, lines 88-89
heading_diff(a, b) == Min(Abs(a - b), 360 - Abs(a - b))

compared_cars_at_any_distance(cars, update) ==
    { other_id \in DOMAIN cars :
        /\ other_id # update.car_id
        /\ ~(cars[other_id].heading_deg = None \/ cars[other_id].speed_kmh = None)
        /\ ~(heading_diff(update.heading_deg, cars[other_id].heading_deg)
                 > HEADING_TOLERANCE_DEG) }

\* _on_car_update, lines 79-97: the other cars the update is compared with
compared_cars(cars, update) ==
    { other_id \in DOMAIN cars :
        /\ other_id # update.car_id
        /\ ~(cars[other_id].heading_deg = None \/ cars[other_id].speed_kmh = None)
        /\ ~(heading_diff(update.heading_deg, cars[other_id].heading_deg)
                 > HEADING_TOLERANCE_DEG)
        /\ ~(haversine_distance_m(update.latitude, update.longitude,
                                  cars[other_id].latitude, cars[other_id].longitude)
                 > PROXIMITY_M * M) }

\* _on_car_update, lines 100-104: the sign of other as update's car sees it
sign_of(update, other) ==
    projection_sign(update.longitude, update.latitude,
                    other.longitude, other.latitude, update.heading_deg)

\* _on_car_update, line 107: self.relative_positions.get(key)
previous_sign_of(positions, key) ==
    IF key \in DOMAIN positions THEN positions[key] ELSE NoSign

updated_positions_compared_only(positions, keys, update, cars) ==
    [key \in keys |-> sign_of(update, cars[key[2]])]

\* _on_car_update, line 124: self.relative_positions after the loop, keys
\* being the pairs the update was compared for
updated_positions(positions, keys, update, cars) ==
    [key \in (DOMAIN positions) \cup keys |->
        IF key \in keys THEN sign_of(update, cars[key[2]])
                        ELSE positions[key]]

\* _on_car_update, lines 72-97: the statement at which the update leaves the
\* comparison with other, "none" if it does not
skip_reason(update, other) ==
    IF update.speed_kmh = None THEN "no speed"
    ELSE IF update.heading_deg = None THEN "no heading"
    ELSE IF other.heading_deg = None \/ other.speed_kmh = None THEN "other"
    ELSE IF heading_diff(update.heading_deg, other.heading_deg)
                > HEADING_TOLERANCE_DEG THEN "heading"
    ELSE IF haversine_distance_m(update.latitude, update.longitude,
                                 other.latitude, other.longitude)
                > PROXIMITY_M * M THEN "far"
    ELSE "none"

\* The history of skipped comparisons after an update: for a pair whose
\* stored +1 the update replaces by -1, what it was; for a pair that keeps
\* its stored +1, one more (up to MaxSkips) if the update is from the pair's
\* first car and leaves the comparison, and what it was if the update is
\* from another car; 0 otherwise.
updated_skipped(positions, keys, update, cars) ==
    [key \in (DOMAIN positions) \cup keys |->
        IF key \in keys
        THEN IF previous_sign_of(positions, key) = 1
                  /\ sign_of(update, cars[key[2]]) = 0 - 1
             THEN skipped[key] ELSE 0
        ELSE IF positions[key] # 1 THEN 0
        ELSE IF key[1] # update.car_id THEN skipped[key]
        ELSE IF skip_reason(update, cars[key[2]]) # "none"
        THEN Min(skipped[key] + 1, MaxSkips)
        ELSE 0]

\* The alert dict of lines 112-120
OvtAlert(update, other_id) ==
    [alert_type |-> "overtaking_event",
     overtaking_car_id |-> update.car_id,
     overtaken_car_id |-> other_id,
     speed_kmh |-> update.speed_kmh,
     latitude |-> update.latitude,
     longitude |-> update.longitude]

\* OvertakingDetector._on_car_update, for a payload that parses to update
ovt_on_car_update(update) ==
    /\ ovt_last' = update
    /\ IF update.speed_kmh = None \/ update.heading_deg = None
       THEN /\ ovt_published' = {}
            /\ skipped' = updated_skipped(relative_positions, {}, update, ovt_cars)
            /\ UNCHANGED <<ovt_cars, relative_positions>>
       ELSE LET cars1 == Put(ovt_cars, update.car_id, update)
                others == compared_cars(cars1, update)
                keys == { <<update.car_id, other_id>> : other_id \in others }
            IN  /\ ovt_cars' = cars1
                /\ ovt_published' =
                       { OvtAlert(update, other_id) : other_id \in
                           { o \in others :
                               overtook(previous_sign_of(relative_positions,
                                                         <<update.car_id, o>>),
                                        sign_of(update, cars1[o])) } }
                /\ relative_positions' =
                       updated_positions(relative_positions, keys, update, cars1)
                /\ skipped' = updated_skipped(relative_positions, keys, update, cars1)

\* What the overtaking detector receives
OvtPayloads ==
    { to_json(update) : update \in OvtUpdates }
        \cup BadPayloadsOf([car_id |-> "c3", latitude |-> 10 * M, longitude |-> 0,
                            speed_kmh |-> 50, heading_deg |-> 0])
        \cup {BarePayloadOf([car_id |-> "c3", latitude |-> 10 * M, longitude |-> 0,
                             speed_kmh |-> 50, heading_deg |-> 0])}

\* OvertakingDetector._on_car_update: the payload is parsed (lines 65-69,
\* logged and dropped if that fails) and the update handled
ovt_handle_payload(payload) ==
    /\ inbound' = payload
    /\ IF parses(payload)
       THEN ovt_on_car_update(from_dict(payload))
       ELSE /\ ovt_last' = NoUpdate
            /\ ovt_published' = {}
            /\ UNCHANGED <<ovt_cars, relative_positions, skipped>>

\* OvertakingDetector.__init__
OvtInit ==
    /\ ovt_cars = EmptyMap
    /\ relative_positions = EmptyMap
    /\ skipped = EmptyMap
    /\ ovt_published = {}
    /\ ovt_last = NoUpdate

OvtUpdate ==
    /\ process = "overtaking_detector"
    /\ \E payload \in OvtPayloads : ovt_handle_payload(payload)
    /\ UNCHANGED <<process, acc_vars, hwy_vars, spd_vars, pos_vars, loop_vars,
                   feed_vars>>

OvtNext == OvtUpdate

\* -------------------------------------------- OvertakingDetector: claims

\* The pairs an overtaking_event was published for
OvertakingPairs(published) ==
    { <<a.overtaking_car_id, a.overtaken_car_id>> : a \in published }

\* The sign stored for the pair, NoSign before the first
StoredSign(positions, pair) ==
    IF pair \in DOMAIN positions THEN positions[pair] ELSE NoSign

C20_StoredStateIsLatestUpdate ==
    ovt_last # NoUpdate =>
        /\ ovt_last.car_id \in DOMAIN ovt_cars
        /\ ovt_cars[ovt_last.car_id] = ovt_last

\* The update is not compared with the stored car other: it lacks speed or
\* heading, or the headings are more than HEADING_TOLERANCE_DEG apart, or
\* the cars are more than PROXIMITY_M apart.
NotCompared(update, other) ==
    \/ update.speed_kmh = None
    \/ update.heading_deg = None
    \/ heading_diff(update.heading_deg, other.heading_deg) > HEADING_TOLERANCE_DEG
    \/ haversine_distance_m(update.latitude, update.longitude,
                            other.latitude, other.longitude) > PROXIMITY_M * M

SPEED_LIMIT_KMH == 20

\* The cars that send updates to the speed detector.
SpdCarIds == {"c1", "c2", "c3"}

\* The speeds they report: none, standing, below the limit, at it, above it
SpdSpeeds == {None, 0, 19, 20, 21, 25}

\* Where they report them from, metres north and east of the origin
SpdNorthings == {0, 10, 20}

SpdEastings == {0, 10}

\* CarUpdate.from_dict of a well-formed payload.
SpdUpdates ==
    { [car_id |-> c, latitude |-> lat * M, longitude |-> lon * M,
       speed_kmh |-> v, heading_deg |-> None]
      : c \in SpdCarIds, lat \in SpdNorthings, lon \in SpdEastings, v \in SpdSpeeds }

\* What the speed detector receives
SpdPayloads ==
    { to_json(update) : update \in SpdUpdates }
        \cup BadPayloadsOf([car_id |-> "c1", latitude |-> 0, longitude |-> 0,
                            speed_kmh |-> 25, heading_deg |-> None])
        \cup {BarePayloadOf([car_id |-> "c1", latitude |-> 0, longitude |-> 0,
                             speed_kmh |-> 25, heading_deg |-> None])}

\* The alert dict of lines 52-60
SpeedAlert(update) ==
    [alert_type |-> "speed_violation",
     car_id |-> update.car_id,
     current_speed_kmh |-> update.speed_kmh,
     speed_limit_kmh |-> SPEED_LIMIT_KMH,
     latitude |-> update.latitude,
     longitude |-> update.longitude]

is_speeding_ge(update) ==
    update.speed_kmh # None /\ update.speed_kmh >= SPEED_LIMIT_KMH

\* _on_car_update, lines 48-51: whether the update is a violation
is_speeding(update) ==
    update.speed_kmh # None /\ update.speed_kmh > SPEED_LIMIT_KMH

\* SpeedDetector._on_car_update, for a payload that parses to update; what
\* is published is the sequence of the calls of publish
spd_on_car_update(update) ==
    /\ spd_last' = update
    /\ spd_published' = IF is_speeding(update) THEN <<SpeedAlert(update)>> ELSE << >>

\* SpeedDetector._on_car_update: the payload is parsed (lines 40-45, logged
\* and dropped if that fails) and the update handled
spd_handle_payload(payload) ==
    /\ inbound' = payload
    /\ IF parses(payload)
       THEN spd_on_car_update(from_dict(payload))
       ELSE /\ spd_last' = NoUpdate
            /\ spd_published' = << >>

\* SpeedDetector.__init__
SpdInit ==
    /\ spd_published = << >>
    /\ spd_last = NoUpdate

SpdUpdate ==
    /\ process = "speed_detector"
    /\ \E payload \in SpdPayloads : spd_handle_payload(payload)
    /\ UNCHANGED <<process, acc_vars, hwy_vars, ovt_vars, pos_vars, loop_vars,
                   feed_vars>>

SpdNext == SpdUpdate

\* ------------------------------------------------- SpeedDetector: claims

\* C11: an update publishes exactly one speed_violation alert, with the
\* update's car, speed and position and the limit, if its speed is defined
\* and greater than the limit, and nothing otherwise; what is published is a
\* function of the payload alone, whatever the detector has seen before.
C11_OneAlertExactlyAboveLimit ==
    [][ LET update == spd_last'
        IN  (update.car_id \in SpdCarIds) =>
              IF update.speed_kmh # None /\ update.speed_kmh - SPEED_LIMIT_KMH > 0
              THEN /\ Len(spd_published') = 1
                   /\ spd_published'[1].alert_type = "speed_violation"
                   /\ spd_published'[1].car_id = update.car_id
                   /\ spd_published'[1].current_speed_kmh = update.speed_kmh
                   /\ spd_published'[1].speed_limit_kmh = SPEED_LIMIT_KMH
                   /\ spd_published'[1].latitude = update.latitude
                   /\ spd_published'[1].longitude = update.longitude
              ELSE spd_published' = << >>
      ]_vars

\* C11's case: an update just above the limit has published its alert.
C11_Witness ==
    /\ spd_last.car_id \in SpdCarIds
    /\ spd_last.speed_kmh = SPEED_LIMIT_KMH + 1
    /\ Len(spd_published) = 1

\* ======================================================= PositionProcessor

\* dt > 0.05, in milliseconds
MIN_DT_MS == 50

\* speed_kmh > 600
MAX_SPEED_KMH == 600

\* dist_m > 1.0
MIN_HEADING_DIST_M == 1

\* config.car_updates_topic
CAR_UPDATES_TOPIC == "cars/updates"

\* self.states.get(car_id) of a car without state (None)
NoLast == << >>

\* The raw GPS samples of the Ditto feed, <<car_id, millimetres north>> on
\* the meridian longitude = 0: c1 at the origin, 1 m, 10 m and 10.001 m
\* north of it, c2 at the origin.
PosSamples ==
    { [car_id |-> "c1", lat |-> 0, lon |-> 0],
      [car_id |-> "c1", lat |-> 1 * M, lon |-> 0],
      [car_id |-> "c1", lat |-> 10 * M, lon |-> 0],
      [car_id |-> "c1", lat |-> 10 * M + 1, lon |-> 0],
      [car_id |-> "c2", lat |-> 0, lon |-> 0] }

\* The time between two samples of the feed, in milliseconds
PosDeltas == {50, 60, 1000}

enriched_speed_zero_at_first(last, lat, lon, now) ==
    IF last = NoLast THEN 0
    ELSE LET dt == now - last[3]
         IN  IF dt > MIN_DT_MS
             THEN LET dist_m == haversine_distance_m(last[1], last[2], lat, lon)
                  IN  IF 36 * dist_m > MAX_SPEED_KMH * 10 * dt \/ 36 * dist_m < 0
                      THEN None
                      ELSE (36 * dist_m) \div (10 * dt)
             ELSE None

enriched_speed_below_max(last, lat, lon, now) ==
    IF last = NoLast THEN None
    ELSE LET dt == now - last[3]
         IN  IF dt > MIN_DT_MS
             THEN LET dist_m == haversine_distance_m(last[1], last[2], lat, lon)
                  IN  IF 36 * dist_m >= MAX_SPEED_KMH * 10 * dt \/ 36 * dist_m < 0
                      THEN None
                      ELSE (36 * dist_m) \div (10 * dt)
             ELSE None

\* _handle_raw_gps, lines 52-66: speed_kmh = dist_m / dt * 3.6 with dist_m in
\* millimetres and dt in milliseconds, in whole km/h (rounded down); the
\* filter compares the unrounded value
enriched_speed(last, lat, lon, now) ==
    IF last = NoLast THEN None
    ELSE LET dt == now - last[3]
         IN  IF dt > MIN_DT_MS
             THEN LET dist_m == haversine_distance_m(last[1], last[2], lat, lon)
                  IN  IF 36 * dist_m > MAX_SPEED_KMH * 10 * dt \/ 36 * dist_m < 0
                      THEN None
                      ELSE (36 * dist_m) \div (10 * dt)
             ELSE None

enriched_heading_from_one_metre(last, lat, lon, now) ==
    IF last = NoLast THEN None
    ELSE LET dt == now - last[3]
         IN  IF dt > MIN_DT_MS
                  /\ haversine_distance_m(last[1], last[2], lat, lon)
                         >= MIN_HEADING_DIST_M * M
             THEN bearing_deg(last[1], last[2], lat, lon)
             ELSE None

\* _handle_raw_gps, lines 53-69: heading
enriched_heading(last, lat, lon, now) ==
    IF last = NoLast THEN None
    ELSE LET dt == now - last[3]
         IN  IF dt > MIN_DT_MS
                  /\ haversine_distance_m(last[1], last[2], lat, lon)
                         > MIN_HEADING_DIST_M * M
             THEN bearing_deg(last[1], last[2], lat, lon)
             ELSE None

stored_state_unless_too_soon(last, lat, lon, now) ==
    IF last # NoLast /\ now - last[3] <= MIN_DT_MS THEN last ELSE <<lat, lon, now>>

\* _handle_raw_gps, line 72: the tuple stored for the car
stored_state(last, lat, lon, now) == <<lat, lon, now>>

\* The CarUpdate of lines 75-82
EnrichedUpdate(last, car_id, lat, lon, now) ==
    [car_id |-> car_id,
     latitude |-> lat,
     longitude |-> lon,
     speed_kmh |-> enriched_speed(last, lat, lon, now),
     heading_deg |-> enriched_heading(last, lat, lon, now),
     timestamp |-> now]

publish_update_unless_first(last, update) ==
    IF last = NoLast THEN << >>
    ELSE << [topic |-> CAR_UPDATES_TOPIC, payload |-> update] >>

\* _handle_raw_gps, lines 90-94: the calls of publish
publish_update(last, update) ==
    << [topic |-> CAR_UPDATES_TOPIC, payload |-> update] >>

\* PositionProcessor._handle_raw_gps(car_id, lat, lon) at clock reading now
handle_raw_gps(car_id, lat, lon, now) ==
    LET last == IF car_id \in DOMAIN pos_states THEN pos_states[car_id] ELSE NoLast
    IN  /\ pos_clock' = now
        /\ pos_sample' = [car_id |-> car_id, lat |-> lat, lon |-> lon]
        /\ pos_states' = Put(pos_states, car_id, stored_state(last, lat, lon, now))
        /\ pos_published' =
               publish_update(last, EnrichedUpdate(last, car_id, lat, lon, now))

\* PositionProcessor.__init__
PosInit ==
    /\ pos_clock = 0
    /\ pos_states = EmptyMap
    /\ pos_published = << >>
    /\ pos_sample = [car_id |-> "none", lat |-> 0, lon |-> 0]
    /\ pos_count = 0

\* The Ditto client calls on_gps_update for a sample of the feed
PosSample ==
    /\ process = "position_processor"
    /\ pos_count < MaxSamples
    /\ pos_count' = pos_count + 1
    /\ \E sample \in PosSamples, delta \in PosDeltas :
           handle_raw_gps(sample.car_id, sample.lat, sample.lon, pos_clock + delta)
    /\ UNCHANGED <<sys_vars, acc_vars, hwy_vars, ovt_vars, spd_vars, loop_vars,
                   feed_vars>>

PosNext == PosSample

\* --------------------------------------------- PositionProcessor: claims

\* C12: a sample of a car with a stored position that arrives more than
\* MIN_DT_MS after it is published with speed_kmh = 3.6 * distance / dt (in
\* the model's whole km/h) if that is in [0, 600] and without speed if not;
\* every speed published is in [0, 600].
C12_SpeedIsDistanceOverTimeOrUndefined ==
    [][ LET car == pos_sample'.car_id
            v == pos_published'[1].payload.speed_kmh
        IN  /\ v # None => (v >= 0 /\ v <= MAX_SPEED_KMH)
            /\ (car \in DOMAIN pos_states /\ pos_clock' - pos_states[car][3] > MIN_DT_MS)
                 => LET dt == pos_clock' - pos_states[car][3]
                        d == haversine_distance_m(pos_states[car][1], pos_states[car][2],
                                                  pos_sample'.lat, pos_sample'.lon)
                    IN  IF 0 <= 36 * d /\ 36 * d <= MAX_SPEED_KMH * 10 * dt
                        THEN /\ v # None
                             /\ v * 10 * dt <= 36 * d
                             /\ 36 * d < (v + 1) * 10 * dt
                        ELSE v = None
      ]_vars

\* C12's case: a sample 10 m from the stored position, one second after it,
\* has been published with 36 km/h.
C12_Witness ==
    /\ Len(pos_published) = 1
    /\ pos_published[1].payload.speed_kmh = 36
    /\ pos_published[1].payload.heading_deg = 0

C29_HeadingExactlyBeyondOneMetre ==
    [][ LET car == pos_sample'.car_id
            heading == pos_published'[1].payload.heading_deg
        IN  IF /\ car \in DOMAIN pos_states
               /\ pos_clock' - pos_states[car][3] > MIN_DT_MS
               /\ Abs(pos_sample'.lat - pos_states[car][1]) > MIN_HEADING_DIST_M * M
            THEN heading = IF pos_sample'.lat > pos_states[car][1] THEN 0 ELSE 180
            ELSE heading = None
      ]_vars

\* C29's case: a sample 10.001 m south of the stored position, 60 ms after
\* it, has been emitted with heading 180 and without speed.
C29_Witness ==
    /\ Len(pos_published) = 1
    /\ pos_published[1].payload.heading_deg = 180
    /\ pos_published[1].payload.speed_kmh = None
    /\ pos_published[1].payload.latitude = 0

\* C30: when a sample has been handled, the position and clock reading
\* stored for its car are the sample's and no other car's have changed; and
\* a sample at most MIN_DT_MS after the one stored for its car is emitted
\* without speed and heading.
C30_StoredStateIsLastSample ==
    [][ LET car == pos_sample'.car_id
        IN  /\ DOMAIN pos_states' = DOMAIN pos_states \cup {car}
            /\ pos_states'[car] = <<pos_sample'.lat, pos_sample'.lon, pos_clock'>>
            /\ \A other \in DOMAIN pos_states :
                   other # car => pos_states'[other] = pos_states[other]
            /\ (car \in DOMAIN pos_states
                    /\ pos_clock' - pos_states[car][3] <= MIN_DT_MS)
                   => /\ pos_published'[1].payload.speed_kmh = None
                      /\ pos_published'[1].payload.heading_deg = None
      ]_vars

\* C30's case: c1's third sample in a row, each MIN_DT_MS after the one
\* before, has been emitted 10 m from the origin without speed and heading.
C30_Witness ==
    /\ pos_count = 3
    /\ pos_clock = 3 * MIN_DT_MS
    /\ DOMAIN pos_states = {"c1"}
    /\ pos_states["c1"] = <<10 * M, 0, pos_clock>>
    /\ pos_published[1].payload.speed_kmh = None
    /\ pos_published[1].payload.heading_deg = None

\* C13: every sample handled, the first of its car and one that arrives at
\* most MIN_DT_MS after the stored one included, is published exactly once,
\* on the updates topic, with the sample's car_id, latitude and longitude
\* and the clock reading of the handling as timestamp.
C13_OneUpdatePerSample ==
    [][ /\ Len(pos_published') = 1
        /\ pos_published'[1].topic = CAR_UPDATES_TOPIC
        /\ pos_published'[1].payload.car_id = pos_sample'.car_id
        /\ pos_published'[1].payload.latitude = pos_sample'.lat
        /\ pos_published'[1].payload.longitude = pos_sample'.lon
        /\ pos_published'[1].payload.timestamp = pos_clock'
      ]_vars

\* C13's case: the first sample of a second car has been published, without
\* speed and heading, while another car's position is stored.
C13_Witness ==
    /\ Len(pos_published) = 1
    /\ pos_published[1].payload.car_id = "c2"
    /\ pos_published[1].payload.speed_kmh = None
    /\ pos_states["c2"][3] = pos_clock
    /\ "c1" \in DOMAIN pos_states
    /\ pos_count = 2

\* ============================================================ the MQTT loop
\*
\* The overtaking detector at the grain of the statements of its handler:
\* messages arrive from the broker at any time, the threads that run the
\* client's loop take them one by one and call the handler.

\* The threads that run the loop: run() calls loop_forever, which runs it in
\* the calling thread; no service creates another thread.
LoopThreads_with_network_thread == {"main", "network"}

LoopThreads == {"main"}

\* What the broker delivers
LoopPayloads ==
    { to_json([car_id |-> "c1", latitude |-> 0, longitude |-> 0,
               speed_kmh |-> 50, heading_deg |-> 0]),
      to_json([car_id |-> "c1", latitude |-> 20 * M, longitude |-> 0,
               speed_kmh |-> 50, heading_deg |-> 0]),
      to_json([car_id |-> "c1", latitude |-> 20 * M, longitude |-> 0,
               speed_kmh |-> None, heading_deg |-> 0]),
      to_json([car_id |-> "c2", latitude |-> 10 * M, longitude |-> 0,
               speed_kmh |-> 50, heading_deg |-> 0]),
      NoPayload }

LoopInit ==
    /\ loop_queue = << >>
    /\ loop_pc = [t \in LoopThreads |-> "select"]
    /\ loop_msg = [t \in LoopThreads |-> NoPayload]
    /\ loop_entry = [t \in LoopThreads |-> <<EmptyMap, EmptyMap>>]

\* A message of the subscribed topic arrives from the broker
LoopReceive ==
    /\ process = "mqtt_loop"
    /\ Len(loop_queue) < MaxQueue
    /\ \E payload \in LoopPayloads : loop_queue' = Append(loop_queue, payload)
    /\ UNCHANGED <<sys_vars, acc_vars, hwy_vars, ovt_vars, spd_vars, pos_vars,
                   feed_vars,
                   loop_pc, loop_msg, loop_entry>>

\* MQTTClient._on_message: a thread that is in the loop takes the next
\* message and calls the handler of its topic with the payload (line 56)
LoopDispatch(t) ==
    /\ process = "mqtt_loop"
    /\ loop_pc[t] = "select"
    /\ loop_queue # << >>
    /\ loop_queue' = Tail(loop_queue)
    /\ loop_pc' = [loop_pc EXCEPT ![t] = "parse"]
    /\ loop_msg' = [loop_msg EXCEPT ![t] = Head(loop_queue)]
    /\ loop_entry' = [loop_entry EXCEPT ![t] = <<ovt_cars, relative_positions>>]
    /\ inbound' = Head(loop_queue)
    /\ ovt_published' = {}
    /\ ovt_last' = NoUpdate
    /\ UNCHANGED <<process, acc_vars, hwy_vars, spd_vars, pos_vars, feed_vars,
                   ovt_cars, relative_positions, skipped>>

\* _on_car_update, lines 65-73: the payload is parsed; the handler returns
\* if that fails or the update has no speed or no heading
LoopParse(t) ==
    /\ process = "mqtt_loop"
    /\ loop_pc[t] = "parse"
    /\ IF parses(loop_msg[t])
       THEN LET update == from_dict(loop_msg[t])
            IN  /\ ovt_last' = update
                /\ loop_pc' = [loop_pc EXCEPT ![t] =
                       IF update.speed_kmh = None \/ update.heading_deg = None
                       THEN "select" ELSE "store"]
       ELSE /\ loop_pc' = [loop_pc EXCEPT ![t] = "select"]
            /\ UNCHANGED ovt_last
    /\ UNCHANGED <<sys_vars, acc_vars, hwy_vars, spd_vars, pos_vars, feed_vars,
                   ovt_cars, relative_positions, skipped, ovt_published,
                   loop_queue, loop_msg, loop_entry>>

\* _on_car_update, line 76: self.cars[update.car_id] = update
LoopStore(t) ==
    /\ process = "mqtt_loop"
    /\ loop_pc[t] = "store"
    /\ ovt_cars' = Put(ovt_cars, loop_msg[t].data.car_id, from_dict(loop_msg[t]))
    /\ loop_pc' = [loop_pc EXCEPT ![t] = "scan"]
    /\ UNCHANGED <<sys_vars, acc_vars, hwy_vars, spd_vars, pos_vars, feed_vars,
                   relative_positions, skipped, ovt_published, ovt_last,
                   loop_queue, loop_msg, loop_entry>>

\* _on_car_update, lines 79-124: the loop over the other cars; the handler
\* returns to the loop
LoopScan(t) ==
    /\ process = "mqtt_loop"
    /\ loop_pc[t] = "scan"
    /\ LET update == from_dict(loop_msg[t])
           others == compared_cars(ovt_cars, update)
           keys == { <<update.car_id, other_id>> : other_id \in others }
       IN  /\ ovt_published' =
                  { OvtAlert(update, other_id) : other_id \in
                      { o \in others :
                          overtook(previous_sign_of(relative_positions,
                                                    <<update.car_id, o>>),
                                   sign_of(update, ovt_cars[o])) } }
           /\ relative_positions' =
                  updated_positions(relative_positions, keys, update, ovt_cars)
    /\ loop_pc' = [loop_pc EXCEPT ![t] = "select"]
    /\ UNCHANGED <<sys_vars, acc_vars, hwy_vars, spd_vars, pos_vars, feed_vars,
                   ovt_cars, skipped, ovt_last, loop_queue, loop_msg, loop_entry>>

LoopNext ==
    \/ LoopReceive
    \/ \E t \in LoopThreads : LoopDispatch(t)
    \/ \E t \in LoopThreads : LoopParse(t)
    \/ \E t \in LoopThreads : LoopStore(t)
    \/ \E t \in LoopThreads : LoopScan(t)

\* ------------------------------------------------------ the MQTT loop: claims

\* The threads that are inside the handler
InHandler(pc) == { t \in DOMAIN pc : pc[t] # "select" }

\* The cars and the signs the handler leaves when it runs from the state
\* entry = <<cars, signs>> with nothing else running
AppliedAlone(entry, payload) ==
    IF ~parses(payload) THEN entry
    ELSE LET update == from_dict(payload)
         IN  IF update.speed_kmh = None \/ update.heading_deg = None THEN entry
             ELSE LET cars1 == [c \in (DOMAIN entry[1]) \cup {update.car_id} |->
                                   IF c = update.car_id THEN update ELSE entry[1][c]]
                      others == compared_cars(cars1, update)
                  IN  << cars1,
                         [key \in (DOMAIN entry[2])
                                      \cup { <<update.car_id, o>> : o \in others } |->
                             IF key[1] = update.car_id /\ key[2] \in others
                             THEN sign_of(update, cars1[key[2]])
                             ELSE entry[2][key]] >>

NoApp == 0

\* The WebSocketApp objects: run_forever makes a new one for every session,
\* and the model tells the one self.ws holds from the one it held before.
Apps == {1, 2}

\* The WebSocketApp that line 99 makes when self.ws holds held
new_app(held) == IF held = 1 THEN 2 ELSE 1

reconnect_delay_growing(opened) == 5 * (opened + 1)

\* time.sleep(5), line 112: the seconds slept after the session that was
\* the opened-th
reconnect_delay(opened) == 5

\* DittoWSClient.__init__, before run_forever and stop are called
FeedInit ==
    /\ should_run = TRUE
    /\ ws = NoApp
    /\ closed = {}
    /\ feed_pc = "idle"
    /\ stop_pc = "idle"
    /\ sessions = 0
    /\ session_samples = 0
    /\ slept = 0
    /\ feed_waited = 0
    /\ feed_end = "none"

\* PositionProcessor.run calls run_forever, which sets the flag (line 94)
FeedStart ==
    /\ process = "ditto_feed"
    /\ feed_pc = "idle"
    /\ should_run' = TRUE
    /\ feed_pc' = "test"
    /\ UNCHANGED <<sys_vars, acc_vars, hwy_vars, ovt_vars, spd_vars, pos_vars,
                   loop_vars, ws, closed, stop_pc, sessions, session_samples,
                   slept, feed_waited, feed_end>>

\* while self._should_run (line 96); run_forever returns when it is false
FeedTest ==
    /\ process = "ditto_feed"
    /\ feed_pc = "test"
    /\ feed_pc' = IF should_run THEN "create" ELSE "returned"
    /\ UNCHANGED <<sys_vars, acc_vars, hwy_vars, ovt_vars, spd_vars, pos_vars,
                   loop_vars, should_run, ws, closed, stop_pc, sessions,
                   session_samples, slept, feed_waited, feed_end>>

\* self.ws = WebSocketApp(...), lines 99-106
FeedCreate ==
    /\ process = "ditto_feed"
    /\ feed_pc = "create"
    /\ ws' = new_app(ws)
    /\ closed' = closed \ {new_app(ws)}
    /\ feed_pc' = "connect"
    /\ UNCHANGED <<sys_vars, acc_vars, hwy_vars, ovt_vars, spd_vars, pos_vars,
                   loop_vars, should_run, stop_pc, sessions, session_samples,
                   slept, feed_waited, feed_end>>

\* self.ws.run_forever(), line 107, is called: a session is opened.  If
\* close() was called on the WebSocketApp before, between lines 106 and 107,
\* the library decides whether the session is opened all the same or the
\* call returns at once.
FeedConnect ==
    /\ process = "ditto_feed"
    /\ feed_pc = "connect"
    /\ \/ /\ closed' = closed \ {ws}
          /\ sessions' = Min(sessions + 1, MaxSessions)
          /\ session_samples' = 0
          /\ feed_waited' = slept
          /\ feed_pc' = "session"
          /\ UNCHANGED feed_end
       \/ /\ ws \in closed
          /\ feed_end' = "closed"
          /\ feed_pc' = "sleep"
          /\ UNCHANGED <<closed, sessions, session_samples, feed_waited>>
    /\ UNCHANGED <<sys_vars, acc_vars, hwy_vars, ovt_vars, spd_vars, pos_vars,
                   loop_vars, should_run, ws, stop_pc, slept>>

\* _on_message, lines 38-80: the open session delivers a sample, and
\* on_gps_update, PositionProcessor._handle_raw_gps, is called with it
FeedSample ==
    /\ process = "ditto_feed"
    /\ feed_pc = "session"
    /\ ws \notin closed
    /\ pos_count < MaxFeedSamples
    /\ pos_count' = pos_count + 1
    /\ session_samples' = session_samples + 1
    /\ \E sample \in PosSamples :
           handle_raw_gps(sample.car_id, sample.lat, sample.lon, pos_clock + 1000)
    /\ UNCHANGED <<sys_vars, acc_vars, hwy_vars, ovt_vars, spd_vars, loop_vars,
                   should_run, ws, closed, feed_pc, stop_pc, sessions, slept,
                   feed_waited, feed_end>>

\* self.ws.run_forever() returns, the session closed by the server or by
\* close(), or raises, and the exception is logged (lines 107-109)
FeedSessionEnds ==
    /\ process = "ditto_feed"
    /\ feed_pc = "session"
    /\ \E how \in {"closed", "exception"} : feed_end' = how
    /\ feed_pc' = "sleep"
    /\ UNCHANGED <<sys_vars, acc_vars, hwy_vars, ovt_vars, spd_vars, pos_vars,
                   loop_vars, should_run, ws, closed, stop_pc, sessions,
                   session_samples, slept, feed_waited>>

\* time.sleep(5), lines 111-112, and back to the test
FeedSleep ==
    /\ process = "ditto_feed"
    /\ feed_pc = "sleep"
    /\ slept' = reconnect_delay(sessions)
    /\ feed_pc' = "test"
    /\ UNCHANGED <<sys_vars, acc_vars, hwy_vars, ovt_vars, spd_vars, pos_vars,
                   loop_vars, should_run, ws, closed, stop_pc, sessions,
                   session_samples, feed_waited, feed_end>>

\* stop(), line 115: self._should_run = False; another thread may call it
\* at any time, before run_forever included
StopFlag ==
    /\ process = "ditto_feed"
    /\ stop_pc = "idle"
    /\ should_run' = FALSE
    /\ stop_pc' = "close"
    /\ UNCHANGED <<sys_vars, acc_vars, hwy_vars, ovt_vars, spd_vars, pos_vars,
                   loop_vars, ws, closed, feed_pc, sessions, session_samples,
                   slept, feed_waited, feed_end>>

\* stop(), lines 116-120: if self.ws: self.ws.close()
StopClose ==
    /\ process = "ditto_feed"
    /\ stop_pc = "close"
    /\ closed' = IF ws # NoApp THEN closed \cup {ws} ELSE closed
    /\ stop_pc' = "returned"
    /\ UNCHANGED <<sys_vars, acc_vars, hwy_vars, ovt_vars, spd_vars, pos_vars,
                   loop_vars, should_run, ws, feed_pc, sessions, session_samples,
                   slept, feed_waited, feed_end>>

\* The statements of run_forever
FeedLoop ==
    FeedStart \/ FeedTest \/ FeedCreate \/ FeedConnect \/ FeedSleep

FeedNext ==
    \/ FeedLoop
    \/ FeedSample
    \/ FeedSessionEnds
    \/ StopFlag
    \/ StopClose

\* ============================================================== the system

\* Every service after its construction; the route files matter to the
\* highway-entry detector only.
Init ==
    /\ process \in Processes
    /\ inbound = NoPayload
    /\ AccInit
    /\ HwyInit
    /\ OvtInit
    /\ SpdInit
    /\ PosInit
    /\ LoopInit
    /\ FeedInit
    /\ process # "highway_entry_detector" => entering_coords = EnteringRoute

Next == AccNext \/ HwyNext \/ OvtNext \/ SpdNext \/ PosNext \/ LoopNext \/ FeedNext

\* Any one of the services.
Spec == Init /\ [][Next]_vars

InitAcc == Init /\ process = "accident_detector"

\* The accident detector.
SpecAcc == InitAcc /\ [][AccNext]_vars

InitHwy == Init /\ process = "highway_entry_detector"

\* The highway-entry detector.
SpecHwy == InitHwy /\ [][HwyNext]_vars

InitOvt == Init /\ process = "overtaking_detector"

\* The overtaking detector.
SpecOvt == InitOvt /\ [][OvtNext]_vars

InitSpd == Init /\ process = "speed_detector"

\* The speed detector.
SpecSpd == InitSpd /\ [][SpdNext]_vars

InitPos == Init /\ process = "position_processor"

\* The position processor.
SpecPos == InitPos /\ [][PosNext]_vars

InitLoop == Init /\ process = "mqtt_loop"

\* The overtaking detector and its MQTT loop.
SpecLoop == InitLoop /\ [][LoopNext]_vars

InitFeed == Init /\ process = "ditto_feed"

\* The position processor and its feed client.
SpecFeed == InitFeed /\ [][FeedNext]_vars

\* The same, the thread that is in run_forever going on whenever it can: it
\* is the main thread of the service (PositionProcessor.run) and none of its
\* statements waits for another thread.  Neither the end of a session nor
\* a call of stop() is bound to happen.
SpecFeedFair == SpecFeed /\ WF_vars(FeedLoop)

\* ---------------------------------------------------- the feed client: claims

\* The step opens a session.
SessionOpens == feed_pc # "session" /\ feed_pc' = "session"

\* C32: while stop() has not been called, run_forever does not return and
\* every session but the first is opened after a sleep of exactly 5 s; the
\* statements of the loop leave the stored positions as they are; and
\* whenever a session has ended, by close or by exception, a new one is
\* opened, unless stop() is called first.
C32_ReconnectsAfterFixedDelay ==
    /\ [][ /\ (SessionOpens /\ sessions >= 1) => feed_waited' = 5
           /\ stop_pc' = "idle" => feed_pc' # "returned"
           /\ (feed_pc = "session" /\ feed_pc' # "session") => feed_pc' = "sleep"
           /\ feed_pc' # feed_pc => pos_states' = pos_states
         ]_vars
    /\ (feed_pc = "sleep" /\ stop_pc = "idle")
           ~> (feed_pc = "session" \/ stop_pc # "idle")

\* C32's case: stop() not called, the session before this one ended by an
\* exception, this one was opened 5 s later, it is at least the third, it
\* has not yet delivered a sample, and the positions stored in earlier
\* sessions are there.
C32_Witness ==
    /\ stop_pc = "idle"
    /\ feed_pc = "session"
    /\ sessions = MaxSessions
    /\ feed_end = "exception"
    /\ feed_waited = 5
    /\ session_samples = 0
    /\ DOMAIN pos_states = {"c1", "c2"}

\* C40, as claimed: once stop() has been called and has returned, run_forever
\* opens no new session.
C40_NoSessionAfterStop ==
    [][ stop_pc = "returned" => ~SessionOpens ]_vars

\* ---------------------------------------------------- the detectors: claims

\* The payload is not JSON, or it is and lacks car_id, latitude or longitude
Malformed(payload) ==
    \/ ~payload.json
    \/ "car_id" \notin payload.keys
    \/ "latitude" \notin payload.keys
    \/ "longitude" \notin payload.keys

\* C14: a detector that receives a payload that is not JSON or lacks
\* car_id, latitude or longitude publishes nothing and leaves all of its
\* state as it was, so that the messages after it are handled as if it had
\* not arrived.
C14_MalformedPayloadIsDropped ==
    [][ Malformed(inbound') =>
          /\ spd_published' = << >>
          /\ acc_published' = {}
          /\ hwy_published' = {}
          /\ ovt_published' = {}
          /\ UNCHANGED <<clock, acc_cars, active_accidents, event_counter>>
          /\ UNCHANGED <<hwy_cars, highway_cars, entering_cars, highway_coords,
                         entering_coords, merge_point, alerted_pairs>>
          /\ UNCHANGED <<ovt_cars, relative_positions>>
      ]_vars

\* C14's case: a detector that holds cars and accidents has received an
\* object without latitude.
C14_Witness ==
    /\ process = "accident_detector"
    /\ inbound.json
    /\ "latitude" \notin inbound.keys
    /\ DOMAIN active_accidents # {}

\* The car the step's message is about: the car of the raw sample for the
\* position processor, called directly or by the feed client, the car_id of
\* the payload for a detector.
MessageCar ==
    IF process \in {"position_processor", "ditto_feed"}
    THEN pos_sample.car_id
    ELSE inbound.data.car_id

\* What the dictionary d holds for key k is the same in this state and the
\* next.
EntryUntouched(d, k, d_next) ==
    /\ (k \in DOMAIN d_next) = (k \in DOMAIN d)
    /\ k \in DOMAIN d => d_next[k] = d[k]

\* C31: a step that handles a message about car A, whether the message is
\* valid or not, leaves what each service has stored for every other car as
\* it was: the position processor's last position, the accident detector's
\* CarState, the overtaking and the highway-entry detector's stored update.
C31_OtherCarsAreUntouched ==
    [][ \A B \in {"c1", "c2", "c3"} :
            B # MessageCar'
                => /\ EntryUntouched(pos_states, B, pos_states')
                   /\ EntryUntouched(acc_cars, B, acc_cars')
                   /\ EntryUntouched(ovt_cars, B, ovt_cars')
                   /\ EntryUntouched(hwy_cars, B, hwy_cars')
      ]_vars

\* C31's case: the accident detector has handled the update by which a car
\* stops suddenly, has created the accident and notified another car, whose
\* CarState it holds.
C31_Witness ==
    /\ process = "accident_detector"
    /\ "ACCIDENT DETECTED" \in acc_log
    /\ \E m \in acc_published :
           /\ m.target_car_id # acc_last.car_id
           /\ m.target_car_id \in DOMAIN acc_cars

====
